---- MODULE Spec2Model ----
(***************************************************************************)
(* A model of the photo-archive metadata catalog: the ingest driver        *)
(* (scripts/bag_ingest.py), the per-group checksum manifests               *)
(* (ensure_checksums_append), the atomic writer                            *)
(* (scripts/utils/atomic_write.py), the migration                          *)
(* (scripts/migrate_master_to_canonical.py), the repair passes             *)
(* (scripts/fix_sequence_and_id.py, scripts/repair_master_from_filename.py)*)
(* and the per-bag ingest (scripts/generate_per_bag_ingest.py), over a     *)
(* small file system.                                                      *)
(*                                                                         *)
(* A file is a sequence of lines; a path that is not in DOMAIN fs does not *)
(* exist.  Every entry point is cut into steps at its file operations, so  *)
(* that the process can be terminated between any two of them.             *)
(***************************************************************************)
EXTENDS Naturals, Sequences, FiniteSets, TLC

VARIABLES
    fs,        \* the file system: path -> content (a sequence of lines)
    tmpctr,    \* how many temporary names tempfile has handed out
    aw,        \* activation record of atomic_write_text / atomic_write_bytes
    ap,        \* activation record of ensure_checksums_append
    run,       \* activation record of bag_ingest.main
    photos,    \* the photo directories: slot (dir, name) -> digest of the bytes
    ncalls,    \* how many entry points have been started
    hist,      \* history: snapshots taken when an entry point starts or ends
    mig,       \* activation record of migrate_master_to_canonical.main or a repair pass
    gen,       \* activation record of generate_per_bag_ingest.main
    call       \* one call of a function or script run on its own: input and result

vars == <<fs, tmpctr, aw, ap, run, photos, ncalls, hist, mig, gen, call>>

(***************************************************************************)
(* Bounds of the model.                                                    *)
(***************************************************************************)
MaxCalls == 2      \* entry-point invocations in one behaviour
MaxFiles == 2      \* photo files present at the same time
MaxInput == 2      \* length of an input list of ensure_checksums_append
MaxLines == 2      \* lines of a text handed to the atomic writer directly

(***************************************************************************)
(* Text.  TLC cannot index a string, so the names the model parses are     *)
(* written as tuples of characters and joined into strings.                *)
(***************************************************************************)
AsciiChars ==
    <<"-",".","/","0","1","2","3","4","5","6","7","8","9",
      "A","B","C","D","E","F","G","H","I","J","K","L","M",
      "N","O","P","Q","R","S","T","U","V","W","X","Y","Z","_",
      "a","b","c","d","e","f","g","h","i","j","k","l","m",
      "n","o","p","q","r","s","t","u","v","w","x","y","z">>

Ord(c) == CHOOSE i \in 1..Len(AsciiChars) : AsciiChars[i] = c

IsDigit(c) == Ord(c) \in Ord("0")..Ord("9")
IsUpperCh(c) == Ord(c) \in Ord("A")..Ord("Z")
IsLowerCh(c) == Ord(c) \in Ord("a")..Ord("z")
IsLetter(c) == IsUpperCh(c) \/ IsLowerCh(c)
DigitVal(c) == Ord(c) - Ord("0")
LowerCh(c) == IF IsUpperCh(c) THEN AsciiChars[Ord(c) + (Ord("a") - Ord("A"))] ELSE c
UpperCh(c) == IF IsLowerCh(c) THEN AsciiChars[Ord(c) - (Ord("a") - Ord("A"))] ELSE c

RECURSIVE Join(_)
Join(t) == IF t = <<>> THEN "" ELSE t[1] \o Join(Tail(t))

MapSeq(t, Op(_)) == [i \in 1..Len(t) |-> Op(t[i])]

\* Python's str comparison: lexicographic by code point.
RECURSIVE CharsLess(_, _)
CharsLess(a, b) ==
    IF b = <<>> THEN FALSE
    ELSE IF a = <<>> THEN TRUE
    ELSE IF a[1] # b[1] THEN Ord(a[1]) < Ord(b[1])
    ELSE CharsLess(Tail(a), Tail(b))

\* "%02d" % n and str(n), for the sequence numbers of the schema (two digits).
Fmt02(n) == IF n < 10 THEN "0" \o ToString(n) ELSE ToString(n)
\* int(text) of a decimal cell, as pandas.read_csv infers an integer column.
SeqNumbers == 0..99
IntTexts == { Fmt02(n) : n \in SeqNumbers } \cup { ToString(n) : n \in SeqNumbers }
IntTable == [s \in IntTexts |-> CHOOSE n \in SeqNumbers : s = Fmt02(n) \/ s = ToString(n)]
ParseInt(s) == IntTable[s]
IsIntText(s) == s \in IntTexts
\* The decimal texts with a zero fraction ("3.0"), which read_csv takes for floats.
FloatTable == [s \in { ToString(n) \o ".0" : n \in SeqNumbers } |->
                 CHOOSE n \in SeqNumbers : s = ToString(n) \o ".0"]
IsFloatText(s) == s \in DOMAIN FloatTable

(***************************************************************************)
(* The universe of photo files.                                            *)
(***************************************************************************)
NameFront == <<"B","A","2","0","3","7","-","0","8","9","_","f","r","o","n","t","_","0","1",".","j","p","g">>
NameBack == <<"B","A","2","0","3","7","-","0","8","9","_","b","a","c","k","_","0","2",".","p","n","g">>
NameSide == <<"B","A","1","2","3","4","-","5","6","7","_","s","i","d","e","_","1","0",".","j","p","e","g">>
NameRandom == <<"r","a","n","d","o","m",".","j","p","g">>
\* A name generate_per_bag_ingest accepts and bag_ingest does not.
NameTop == <<"b","a","2","0","3","7","-","0","8","9","_","t","o","p","_","v","i","e","w","_","3",".","j","p","g">>

NameFront2 == <<"B","A","2","0","3","7","-","0","8","9","_","f","r","o","n","t","_","0","2",".","j","p","g">>
KnownNames == {NameFront, NameBack, NameSide, NameRandom, NameTop, NameFront2}

\* generate_per_bag_ingest line 188: "data/photos/<bag>/", for --bag BA2037-089.
BagArg == <<"B","A","2","0","3","7","-","0","8","9">>
GenDirChars == <<"d","a","t","a","/","p","h","o","t","o","s","/">> \o BagArg \o <<"/">>

DirA == "data/02_Models/BA2037-089/photos"
DirB == "data/02_Models/BA1234-567/photos"

\* The files that may appear under the root: (photos directory, base name).
Slots ==
    { [dir |-> DirA, name |-> Join(NameFront)],
      [dir |-> DirA, name |-> Join(NameBack)],
      [dir |-> DirB, name |-> Join(NameFront)],
      [dir |-> DirB, name |-> Join(NameSide)],
      [dir |-> DirA, name |-> Join(NameRandom)] }

\* A digest: <<its first eight characters, the rest>>.
DigestX == <<"3fa91c0e", "x">>
DigestY == <<"b07d44a2", "y">>
Digests == { DigestX, DigestY }
DigestZ == <<"77c0de5a", "z">>
Sha8(sha) == sha[1]

\* The bytes a file of the universe may hold: the second file of group
\* BA2037-089 may be a copy of the first (the same digest) or not, and so may
\* the file of the same name in the other directory.
SlotDigests(slot) ==
    IF slot.name = Join(NameBack) THEN Digests
    ELSE IF slot.dir = DirA THEN {DigestX}
    ELSE IF slot.name = Join(NameFront) THEN Digests
    ELSE {DigestY}

PathOf(slot) == slot.dir \o "/" \o slot.name

(***************************************************************************)
(* bag_ingest.parse_schema: SCHEMA.match(name) with                        *)
(* ^(BA\d{4}-\d{3})_([a-z]+)_(\d{2})\.(jpg|jpeg|png|webp)$ and re.I.       *)
(***************************************************************************)
\* Mutant: webp is not an extension of the list.
EXTS_WITHOUT_WEBP == { <<"j","p","g">>, <<"j","p","e","g">>, <<"p","n","g">> }

EXTS == { <<"j","p","g">>, <<"j","p","e","g">>, <<"p","n","g">>, <<"w","e","b","p">> }

Unparsed == [model |-> "", view |-> "unknown", seq |-> 0]

\* The end of the run of letters that starts at position i of t.
RECURSIVE LettersEnd(_, _)
LettersEnd(t, i) ==
    IF i <= Len(t) /\ IsLetter(t[i]) THEN LettersEnd(t, i + 1) ELSE i

AllDigits(t, from, to) == \A i \in from..to : IsDigit(t[i])

ParseChars(t) ==
    IF Len(t) < 12 THEN Unparsed
    ELSE
    LET e == LettersEnd(t, 12)      \* the view is t[12..e-1]; t[e] must be "_"
    IN  IF /\ LowerCh(t[1]) = "b" /\ LowerCh(t[2]) = "a"
           /\ AllDigits(t, 3, 6) /\ t[7] = "-" /\ AllDigits(t, 8, 10)
           /\ t[11] = "_"
           /\ e > 12
           /\ Len(t) >= e + 4
           /\ t[e] = "_" /\ AllDigits(t, e + 1, e + 2) /\ t[e + 3] = "."
           /\ MapSeq(SubSeq(t, e + 4, Len(t)), LowerCh) \in EXTS
        THEN [model |-> Join(MapSeq(SubSeq(t, 1, 10), UpperCh)),
              view  |-> Join(MapSeq(SubSeq(t, 12, e - 1), LowerCh)),
              seq   |-> 10 * DigitVal(t[e + 1]) + DigitVal(t[e + 2])]
        ELSE Unparsed

\* The characters of a string the model knows: a file name, a group or a view.
KnownTuples ==
    KnownNames
    \cup { MapSeq(SubSeq(t, 1, 10), UpperCh) : t \in {u \in KnownNames : Len(u) >= 10} }
    \cup { MapSeq(SubSeq(t, 12, LettersEnd(t, 12) - 1), LowerCh) :
             t \in {u \in KnownNames : Len(u) >= 12} }
    \cup { GenDirChars \o t : t \in KnownNames }
    \cup { <<"t","o","p","_","v","i","e","w">>, <<"u","n","k","n","o","w","n">> }
    \cup { <<>> }

KnownStrings == { Join(t) : t \in KnownTuples }
CharsTable == [s \in KnownStrings |-> CHOOSE t \in KnownTuples : Join(t) = s]
CharsOf(s) == CharsTable[s]

StrLess(a, b) == CharsLess(CharsOf(a), CharsOf(b))

\* parse_schema of every file name of the universe, computed once.
ParsedNames == [s \in { Join(t) : t \in KnownNames } |-> ParseChars(CharsOf(s))]
parse_schema(name) == ParsedNames[name]

(***************************************************************************)
(* The file system.                                                        *)
(***************************************************************************)
EmptyMap == [x \in {} |-> x]
Exists(f, p) == p \in DOMAIN f
Put(f, p, c) == [q \in DOMAIN f \cup {p} |-> IF q = p THEN c ELSE f[q]]
Remove(f, p) == [q \in DOMAIN f \ {p} |-> f[q]]
\* Path.replace / os.replace: one rename, the destination is overwritten.
Replace(f, src, dst) == Put(Remove(f, src), dst, f[src])

MASTER == "data/master_metadata.csv"
SIMPLE == "data/master_metadata_simple.csv"

(***************************************************************************)
(* scripts/utils/atomic_write.py: atomic_write_text and atomic_write_bytes *)
(* differ only in the mode the temporary file is opened with.              *)
(*   pc: "off" (never called), "create", "write", "replace", "done",       *)
(*       "crashed".  pre is the target as the call found it (history).     *)
(***************************************************************************)
NoFile == <<[t |-> "absent"]>>
Snapshot(f, p) == IF Exists(f, p) THEN f[p] ELSE NoFile

AwOff == [pc |-> "off", path |-> "", text |-> <<>>, tmp |-> "", mode |-> "w", pre |-> NoFile]

\* Mutant: the text is written straight into the target file.
TmpNameInPlace(path, k) == path

\* tempfile.NamedTemporaryFile(dir=path.parent): a name beside the target
\* that no file has; k counts the names handed out so far.
TmpName(path, k) == "data/tmp" \o ToString(k)

AwBegin(path, text, mode) ==
    [pc |-> "create", path |-> path, text |-> text, tmp |-> "", mode |-> mode,
     pre |-> Snapshot(fs, path)]

\* with tempfile.NamedTemporaryFile(mode, delete=False, dir=...) as tmp:
AwCreate ==
    /\ aw.pc = "create"
    /\ LET name == TmpName(aw.path, tmpctr + 1)
       IN  /\ fs' = Put(fs, name, <<>>)
           /\ aw' = [aw EXCEPT !.pc = "write", !.tmp = name]
    /\ tmpctr' = tmpctr + 1
    /\ UNCHANGED <<ap, run, photos, ncalls, hist, mig, gen, call>>

\* tmp.write(text): the lines reach the temporary file one after the other;
\* leaving the with block closes it.
AwWrite ==
    /\ aw.pc = "write"
    /\ LET have == Len(fs[aw.tmp])
       IN  IF have < Len(aw.text)
           THEN /\ fs' = Put(fs, aw.tmp, Append(fs[aw.tmp], aw.text[have + 1]))
                /\ aw' = aw
           ELSE /\ fs' = fs
                /\ aw' = [aw EXCEPT !.pc = "replace"]
    /\ UNCHANGED <<tmpctr, ap, run, photos, ncalls, hist, mig, gen, call>>

\* os.replace(tmp_name, path)
AwReplace ==
    /\ aw.pc = "replace"
    /\ fs' = Replace(fs, aw.tmp, aw.path)
    /\ aw' = [aw EXCEPT !.pc = "done"]
    /\ UNCHANGED <<tmpctr, ap, run, photos, ncalls, hist, mig, gen, call>>

AwRunning == aw.pc \in {"create", "write", "replace"}
AwIdle == aw.pc \in {"off", "done", "crashed"}
AwKill == IF AwRunning THEN [aw EXCEPT !.pc = "crashed"] ELSE aw

(***************************************************************************)
(* bag_ingest.ensure_checksums_append(model, root, files_with_hashes).     *)
(* A Path is [root, rel]: rel under the repository root ("repo") or under  *)
(* another volume ("other").  A manifest line is [sha, path].              *)
(*   pc: "off", "load", "tmp_open", "tmp_write", "merged_open",            *)
(*       "merged_old", "merged_new", "merged_replace", "unlink",           *)
(*       "tmp_replace", "done", "crashed".                                 *)
(*   pre is the manifest as the call found it, wrote whether the call has  *)
(*   replaced the manifest file (history).                                 *)
(***************************************************************************)
ManifestPath(model) == "data/checksums/" \o model \o ".sha256"
\* out.with_suffix(".tmp"), out.with_suffix(".merged")
TmpPath(model) == "data/checksums/" \o model \o ".tmp"
\* Mutant: the old and the new lines are merged in the manifest file itself.
MergedInPlace(model) == ManifestPath(model)
MergedPath(model) == "data/checksums/" \o model \o ".merged"

\* p.resolve().relative_to(root).as_posix(), or the absolute path on ValueError.
RelTxt(p) == IF p.root = "repo" THEN p.rel ELSE "/mnt/other/" \o p.rel

\* line.strip().split(maxsplit=1)[0] of every line: the digests on file.
ExistingDigests(content) == { content[i].sha : i \in 1..Len(content) }

\* for p, h in files_with_hashes: if h in existing: continue; rows.append(...)
RECURSIVE NewRows(_, _)
NewRows(input, existing) ==
    IF input = <<>> THEN <<>>
    ELSE IF input[1].sha \in existing
         THEN NewRows(Tail(input), existing)
         ELSE <<[sha |-> input[1].sha, path |-> RelTxt(input[1].path)]>>
                  \o NewRows(Tail(input), existing)

ApOff ==
    [pc |-> "off", model |-> "", input |-> <<>>, existing |-> {}, rows |-> <<>>,
     pre |-> NoFile, wrote |-> FALSE]

ApBegin(model, input) ==
    [pc |-> "load", model |-> model, input |-> input, existing |-> {}, rows |-> <<>>,
     pre |-> Snapshot(fs, ManifestPath(model)), wrote |-> FALSE]

ApFrame == UNCHANGED <<tmpctr, aw, run, photos, ncalls, hist, mig, gen, call>>

\* lines 98-115: read the digests on file, keep the input entries not among them.
ApLoad ==
    /\ ap.pc = "load"
    /\ LET out == ManifestPath(ap.model)
           existing == IF Exists(fs, out) THEN ExistingDigests(fs[out]) ELSE {}
           rows == NewRows(ap.input, existing)
       IN  ap' = [ap EXCEPT !.existing = existing, !.rows = rows,
                            !.pc = IF rows = <<>> THEN "done" ELSE "tmp_open"]
    /\ UNCHANGED fs
    /\ ApFrame

\* line 119: tmp.open("w") creates or truncates the .tmp file.
ApTmpOpen ==
    /\ ap.pc = "tmp_open"
    /\ fs' = Put(fs, TmpPath(ap.model), <<>>)
    /\ ap' = [ap EXCEPT !.pc = "tmp_write"]
    /\ ApFrame

\* lines 120-122: f.writelines(rows), then the branch on out.exists().
ApTmpWrite ==
    /\ ap.pc = "tmp_write"
    /\ fs' = Put(fs, TmpPath(ap.model), ap.rows)
    /\ ap' = [ap EXCEPT !.pc = IF Exists(fs, ManifestPath(ap.model))
                                THEN "merged_open" ELSE "tmp_replace"]
    /\ ApFrame

\* line 124: merged.open("w")
ApMergedOpen ==
    /\ ap.pc = "merged_open"
    /\ fs' = Put(fs, MergedPath(ap.model), <<>>)
    /\ ap' = [ap EXCEPT !.pc = "merged_old"]
    /\ ApFrame

\* lines 125-126: m.write(old.read())
ApMergedOld ==
    /\ ap.pc = "merged_old"
    /\ fs' = Put(fs, MergedPath(ap.model),
                     fs[MergedPath(ap.model)] \o fs[ManifestPath(ap.model)])
    /\ ap' = [ap EXCEPT !.pc = "merged_new"]
    /\ ApFrame

\* lines 127-128: m.write(newp.read())
ApMergedNew ==
    /\ ap.pc = "merged_new"
    /\ fs' = Put(fs, MergedPath(ap.model),
                     fs[MergedPath(ap.model)] \o fs[TmpPath(ap.model)])
    /\ ap' = [ap EXCEPT !.pc = "merged_replace"]
    /\ ApFrame

\* line 129: merged.replace(out)
ApMergedReplace ==
    /\ ap.pc = "merged_replace"
    /\ fs' = Replace(fs, MergedPath(ap.model), ManifestPath(ap.model))
    /\ ap' = [ap EXCEPT !.pc = "unlink", !.wrote = TRUE]
    /\ ApFrame

\* lines 130-133: tmp.unlink()
ApUnlink ==
    /\ ap.pc = "unlink"
    /\ fs' = Remove(fs, TmpPath(ap.model))
    /\ ap' = [ap EXCEPT !.pc = "done"]
    /\ ApFrame

\* line 135: tmp.replace(out), when there was no manifest yet.
ApTmpReplace ==
    /\ ap.pc = "tmp_replace"
    /\ fs' = Replace(fs, TmpPath(ap.model), ManifestPath(ap.model))
    /\ ap' = [ap EXCEPT !.pc = "done", !.wrote = TRUE]
    /\ ApFrame

ApRunning == ap.pc \notin {"off", "done", "crashed"}
ApIdle == ~ApRunning
ApKill == IF ApRunning THEN [ap EXCEPT !.pc = "crashed"] ELSE ap

(***************************************************************************)
(* The master table.  On file: a header line [t = "hdr", cols] and data    *)
(* lines [t = "row", cols, ...cells as text...]; a line [t = "junk"] is    *)
(* one pandas cannot parse.  In memory (a DataFrame) a row has the same    *)
(* cells, typed: read_csv infers an integer column for `sequence`, while   *)
(* the rows bag_ingest builds hold the string f"{seq:02d}".  notes is a    *)
(* sequence of lines, legacy the cell of the one column a legacy table has *)
(* beside the canonical ones.  The cells the model leaves out (width,      *)
(* height, filesize, source, uid) are copied by every step.                *)
(***************************************************************************)
CORRUPT_BAK == "data/master_metadata.corrupt.bak"

IntCell(n) == [ty |-> "int", n |-> n, s |-> ""]
FltCell(n) == [ty |-> "flt", n |-> n, s |-> ""]
StrCell(s) == [ty |-> "str", n |-> 0, s |-> s]
\* to_csv of one cell.
CellText(c) ==
    IF c.ty = "int" THEN ToString(c.n)
    ELSE IF c.ty = "flt" THEN ToString(c.n) \o ".0"
    ELSE c.s

Header(cols) == [t |-> "hdr", cols |-> cols]
Junk == [t |-> "junk"]

\* pd.read_csv(master_csv) raises on a file that does not start with a header
\* line or holds a line it cannot tokenize.
ReadOk(content) ==
    /\ content # <<>>
    /\ content[1].t = "hdr"
    /\ \A i \in 2..Len(content) : content[i].t = "row"

\* pd.read_csv: the data lines as typed rows.  A column whose cells are all
\* decimal becomes an integer column ("01" is read as 1); one whose cells are
\* decimal, of the form "3.0" or empty becomes a float column; any other
\* column holds the texts.  An empty cell is NaN, here StrCell("").
ReadCsv(content) ==
    LET n == Len(content) - 1
        allInt == \A i \in 2..Len(content) : IsIntText(content[i].sequence)
        allNum == \A i \in 2..Len(content) :
                     \/ IsIntText(content[i].sequence)
                     \/ IsFloatText(content[i].sequence)
                     \/ content[i].sequence = ""
    IN  [i \in 1..n |->
            LET l == content[i + 1]
            IN  [id |-> l.id, filename |-> l.filename, model |-> l.model,
                 viewtype |-> l.viewtype,
                 sequence |-> IF allInt THEN IntCell(ParseInt(l.sequence))
                              ELSE IF allNum /\ IsIntText(l.sequence)
                                   THEN FltCell(ParseInt(l.sequence))
                              ELSE IF allNum /\ IsFloatText(l.sequence)
                                   THEN FltCell(FloatTable[l.sequence])
                              ELSE StrCell(l.sequence),
                 sha256 |-> l.sha256, processed_at |-> l.processed_at,
                 manifest |-> l.manifest, notes |-> l.notes, legacy |-> l.legacy]]

\* DataFrame.to_csv(index=False): the header, then one line per row.
ToCsv(rows, cols) ==
    <<Header(cols)>> \o
    [i \in 1..Len(rows) |->
        [t |-> "row", cols |-> cols, id |-> rows[i].id, filename |-> rows[i].filename,
         model |-> rows[i].model, viewtype |-> rows[i].viewtype,
         sequence |-> CellText(rows[i].sequence), sha256 |-> rows[i].sha256,
         processed_at |-> rows[i].processed_at, manifest |-> rows[i].manifest,
         notes |-> rows[i].notes, legacy |-> rows[i].legacy]]

\* Mutant: an unreadable file is deleted instead of being moved away.
load_existing_master_unlink(f) ==
    IF Exists(f, MASTER) /\ f[MASTER] # <<>>
    THEN IF ReadOk(f[MASTER])
         THEN [table |-> ReadCsv(f[MASTER]), cols |-> f[MASTER][1].cols, fs |-> f,
               quarantined |-> FALSE]
         ELSE [table |-> <<>>, cols |-> "wide", fs |-> Remove(f, MASTER),
               quarantined |-> TRUE]
    ELSE [table |-> <<>>, cols |-> "wide", fs |-> f, quarantined |-> FALSE]

\* bag_ingest.load_existing_master: the table read, and the file system it
\* leaves (an unreadable file is moved to .corrupt.bak).
load_existing_master(f) ==
    IF Exists(f, MASTER) /\ f[MASTER] # <<>>
    THEN IF ReadOk(f[MASTER])
         THEN [table |-> ReadCsv(f[MASTER]), cols |-> f[MASTER][1].cols, fs |-> f,
               quarantined |-> FALSE]
         ELSE [table |-> <<>>, cols |-> "wide", fs |-> Replace(f, MASTER, CORRUPT_BAK),
               quarantined |-> TRUE]
    ELSE [table |-> <<>>, cols |-> "wide", fs |-> f, quarantined |-> FALSE]

ShaSet(rows) == { rows[i].sha256 : i \in 1..Len(rows) }

\* The permutations of a finite set, as sequences.
Perms(S) ==
    { q \in [1..Cardinality(S) -> S] : \A i, j \in 1..Cardinality(S) : i # j => q[i] # q[j] }

\* root.rglob("photos") then photos_dir.iterdir(): the directories in some
\* order, the files of one directory together, in some order.
ScanOrders(ph) ==
    { q \in Perms(DOMAIN ph) :
        \A i, j, m \in 1..Len(q) :
            (i < m /\ m < j /\ q[i].dir = q[j].dir) => q[m].dir = q[i].dir }

\* lines 214-245: the row of one file, when its name parses and its digest is
\* not in the loaded table.
NewRow(slot, sha, k) ==
    LET ps == parse_schema(slot.name)
    IN  [id |-> ps.model \o "_" \o ps.view \o "_" \o Fmt02(ps.seq) \o "_" \o Sha8(sha),
         filename |-> slot.name, model |-> ps.model, viewtype |-> ps.view,
         sequence |-> StrCell(Fmt02(ps.seq)), sha256 |-> sha,
         processed_at |-> k, manifest |-> "", notes |-> <<>>, legacy |-> ""]

\* Mutant: the digest of a file is never found in the loaded table.
AlreadyPresentNever(existing, sha) == FALSE

\* line 221: skip if sha already present in the loaded table.
AlreadyPresent(existing, sha) == sha \in ShaSet(existing)

\* lines 205-245: the scan, over the files in the order q.
RECURSIVE ScanRows(_, _, _, _)
ScanRows(q, ph, existing, k) ==
    IF q = <<>> THEN <<>>
    ELSE IF parse_schema(q[1].name).model = "" \/ AlreadyPresent(existing, ph[q[1]])
         THEN ScanRows(Tail(q), ph, existing, k)
         ELSE <<NewRow(q[1], ph[q[1]], k)>> \o ScanRows(Tail(q), ph, existing, k)

\* line 212: file_map[p.name] = p, the last file of a name wins.
RECURSIVE FileMap(_)
FileMap(q) ==
    IF q = <<>> THEN EmptyMap
    ELSE LET last == q[Len(q)]
         IN  Put(FileMap(SubSeq(q, 1, Len(q) - 1)), last.name,
                 [root |-> "repo", rel |-> PathOf(last)])

\* lines 268-273: the groups in the order of their first new row.
RECURSIVE GroupOrder(_, _)
GroupOrder(rows, seen) ==
    IF rows = <<>> THEN <<>>
    ELSE IF rows[1].model \in seen
         THEN GroupOrder(Tail(rows), seen)
         ELSE <<rows[1].model>> \o GroupOrder(Tail(rows), seen \cup {rows[1].model})

RECURSIVE ByModel(_, _, _)
ByModel(rows, fmap, model) ==
    IF rows = <<>> THEN <<>>
    ELSE IF rows[1].model = model /\ rows[1].filename \in DOMAIN fmap
         THEN <<[path |-> fmap[rows[1].filename], sha |-> rows[1].sha256]>>
                  \o ByModel(Tail(rows), fmap, model)
         ELSE ByModel(Tail(rows), fmap, model)

\* Mutant: the rows keep the empty manifest path they were created with.
StampNone(rows, mbm) == rows

\* lines 282-283: r["sha256_manifest_path"] = manifest_by_model.get(r["model"], "")
Stamp(rows, mbm) ==
    [i \in 1..Len(rows) |->
        [rows[i] EXCEPT !.manifest =
            IF rows[i].model \in DOMAIN mbm THEN mbm[rows[i].model] ELSE ""]]

\* Mutant: no row is dropped.
DropNothing(rows, seen) == rows

\* Mutant: of the rows with one digest the last is kept.
DropDuplicatesKeepLast(rows, seen) ==
    LET keep == { i \in 1..Len(rows) :
                    /\ rows[i].sha256 \notin seen
                    /\ \A j \in (i + 1)..Len(rows) : rows[j].sha256 # rows[i].sha256 }
    IN  [k \in 1..Cardinality(keep) |->
            rows[CHOOSE i \in keep : Cardinality({ j \in keep : j < i }) = k - 1]]

\* drop_duplicates(subset=["sha256"], keep="first")
RECURSIVE DropDuplicates(_, _)
DropDuplicates(rows, seen) ==
    IF rows = <<>> THEN <<>>
    ELSE IF rows[1].sha256 \in seen
         THEN DropDuplicates(Tail(rows), seen)
         ELSE <<rows[1]>> \o DropDuplicates(Tail(rows), seen \cup {rows[1].sha256})

\* The characters of a decimal text of one or two digits.
DigitStr == { ToString(d) : d \in 0..9 }
NumTuples == { <<a>> : a \in DigitStr } \cup { <<a, b>> : a \in DigitStr, b \in DigitStr }
NumTable == [s \in { Join(t) : t \in NumTuples } |-> CHOOSE t \in NumTuples : Join(t) = s]
NumChars(s) == NumTable[s]

\* The order pandas sorts an object column of numbers and strings by
\* (algorithms.safe_sort): the numbers first, by value, then the strings;
\* NaN comes last.
CellLess(a, b) ==
    IF a.ty \in {"int", "flt"} /\ b.ty \in {"int", "flt"} THEN a.n < b.n
    ELSE IF a.ty \in {"int", "flt"} THEN TRUE
    ELSE IF b.ty \in {"int", "flt"} THEN FALSE
    ELSE IF a.s = "" THEN FALSE
    ELSE IF b.s = "" THEN TRUE
    ELSE CharsLess(NumChars(a.s), NumChars(b.s))

\* One string key of sort_values.  na: the frame was read from a file, where
\* an empty cell is NaN and sorts last (na_position="last"); in a frame built
\* in memory "" is a string and sorts first.
KeyLess(x, y, na) ==
    IF na /\ x = "" THEN FALSE
    ELSE IF na /\ y = "" THEN TRUE
    ELSE StrLess(x, y)

\* by=["model", "viewtype", "sequence", "filename"]
RowLess(a, b, na) ==
    IF a.model # b.model THEN KeyLess(a.model, b.model, na)
    ELSE IF a.viewtype # b.viewtype THEN KeyLess(a.viewtype, b.viewtype, na)
    ELSE IF a.sequence # b.sequence THEN CellLess(a.sequence, b.sequence)
    ELSE KeyLess(a.filename, b.filename, na)

\* Insert r after the rows that are not greater than it (stable).
RECURSIVE InsertSorted(_, _, _)
InsertSorted(sorted, r, na) ==
    IF sorted = <<>> THEN <<r>>
    ELSE IF RowLess(r, sorted[1], na) THEN <<r>> \o sorted
    ELSE <<sorted[1]>> \o InsertSorted(Tail(sorted), r, na)

\* sort_values(by=[...], kind="stable")
RECURSIVE SortRows(_, _)
SortRows(rows, na) ==
    IF rows = <<>> THEN <<>>
    ELSE InsertSorted(SortRows(SubSeq(rows, 1, Len(rows) - 1), na), rows[Len(rows)], na)

\* lines 286-298: concat, drop_duplicates, sort_values, to_csv.
Combined(existing, new_rows) == SortRows(DropDuplicates(existing \o new_rows, {}), TRUE)

(***************************************************************************)
(* The file-name patterns of the other entry points.                       *)
(***************************************************************************)
IsAlnum(c) == IsDigit(c) \/ IsLetter(c)

\* (BA\d{4}-\d{3})_([a-z]+)_(\d{2})\.[a-z0-9]+ with re.I, matched from
\* position o + 1 of t; anchored: the match has to end where t ends ($).
MatchAt(t, o, anchored) ==
    IF Len(t) < o + 12 THEN FALSE
    ELSE
    LET e == LettersEnd(t, o + 12)
    IN  /\ LowerCh(t[o + 1]) = "b" /\ LowerCh(t[o + 2]) = "a"
        /\ AllDigits(t, o + 3, o + 6) /\ t[o + 7] = "-" /\ AllDigits(t, o + 8, o + 10)
        /\ t[o + 11] = "_"
        /\ e > o + 12
        /\ Len(t) >= e + 4
        /\ t[e] = "_" /\ AllDigits(t, e + 1, e + 2) /\ t[e + 3] = "."
        /\ IsAlnum(t[e + 4])
        /\ anchored => \A i \in (e + 4)..Len(t) : IsAlnum(t[i])

\* m.group(1).upper(), m.group(2).lower(), m.group(3) of the match at o + 1.
MatchGroups(t, o) ==
    LET e == LettersEnd(t, o + 12)
    IN  [model |-> Join(MapSeq(SubSeq(t, o + 1, o + 10), UpperCh)),
         view  |-> Join(MapSeq(SubSeq(t, o + 12, e - 1), LowerCh)),
         seq   |-> Join(SubSeq(t, e + 1, e + 2))]

\* Path(text).name: what follows the last "/".
BaseNameChars(t) ==
    LET cuts == { i \in 1..Len(t) : t[i] = "/" }
    IN  IF cuts = {} THEN t
        ELSE SubSeq(t, (CHOOSE i \in cuts : \A j \in cuts : j <= i) + 1, Len(t))
BaseNames == [s \in KnownStrings |-> Join(BaseNameChars(CharsOf(s)))]
BaseName(s) == BaseNames[s]

\* migrate_master_to_canonical.parse_from_filename: SCHEMA.match(fn).
MigParsed ==
    [s \in KnownStrings |->
        IF MatchAt(CharsOf(s), 0, TRUE) THEN MatchGroups(CharsOf(s), 0)
        ELSE [model |-> "", view |-> "unknown", seq |-> ""]]
parse_from_filename(fn) == MigParsed[fn]

\* repair_master_from_filename.parse_any: SCHEMA_ANYWHERE.search(s), the
\* leftmost match; got is FALSE for None.
AnyParsed ==
    [s \in KnownStrings |->
        LET t == CharsOf(s)
            at == { o \in 0..Len(t) : MatchAt(t, o, FALSE) }
        IN  IF at = {} THEN [got |-> FALSE, model |-> "", view |-> "", seq |-> ""]
            ELSE LET o == CHOOSE x \in at : \A y \in at : x <= y
                     g == MatchGroups(t, o)
                 IN  [got |-> TRUE, model |-> g.model, view |-> g.view,
                      seq |-> Fmt02(ParseInt(g.seq))]]
parse_any(s) == AnyParsed[s]

\* generate_per_bag_ingest.FILENAME_RE:
\* ^BA\d{4}-\d{3}_[a-z0-9_-]+_\d+\.(jpe?g|png)$ with re.IGNORECASE.
GEN_EXTS == { <<"j","p","g">>, <<"j","p","e","g">>, <<"p","n","g">> }
IsViewCh(c) == IsAlnum(c) \/ c = "_" \/ c = "-"

\* The position of the last c in t, 0 when there is none.
LastOf(t, c) ==
    LET at == { i \in 1..Len(t) : t[i] = c }
    IN  IF at = {} THEN 0 ELSE CHOOSE i \in at : \A j \in at : j <= i

\* generate_per_bag_ingest.parse_filename on the characters of a base name:
\* model = parts[0], viewtype = "_".join(parts[1:-1]), sequence = parts[-1]
\* of the name without its extension, split at "_"; ok is FALSE for None.
GenParseChars(t) ==
    LET d == LastOf(t, ".")
        u == LastOf(SubSeq(t, 1, IF d = 0 THEN 0 ELSE d - 1), "_")
        none == [ok |-> FALSE, model |-> "", upper |-> "", viewtype |-> "", sequence |-> ""]
    IN  IF /\ Len(t) >= 12 /\ d > 0 /\ u > 12 /\ u < d - 1
           /\ LowerCh(t[1]) = "b" /\ LowerCh(t[2]) = "a"
           /\ AllDigits(t, 3, 6) /\ t[7] = "-" /\ AllDigits(t, 8, 10)
           /\ t[11] = "_"
           /\ \A i \in 12..(u - 1) : IsViewCh(t[i])
           /\ AllDigits(t, u + 1, d - 1)
           /\ MapSeq(SubSeq(t, d + 1, Len(t)), LowerCh) \in GEN_EXTS
        THEN [ok |-> TRUE, model |-> Join(SubSeq(t, 1, 10)),
              upper |-> Join(MapSeq(SubSeq(t, 1, 10), UpperCh)),
              viewtype |-> Join(SubSeq(t, 12, u - 1)),
              sequence |-> Join(SubSeq(t, u + 1, d - 1))]
        ELSE none
GenParsed == [s \in { Join(t) : t \in KnownNames } |-> GenParseChars(CharsOf(s))]
parse_filename(fname) == GenParsed[fname]

(***************************************************************************)
(* The tables the other entry points compute.                              *)
(***************************************************************************)
BKP == "data/master_metadata.pre_migrate.bak.csv"

\* The name of the column a legacy table has beside the canonical ones.
LEGACY_COLUMN == "caption"

\* lines 133-136: base_keys | extra_used | set(used)
used_keys ==
    { "id", "filename", "model", "viewtype", "sequence", "width", "height", "filesize",
      "sha256", "processed_at", "source", "uid", "sha256_manifest_path", "notes",
      "file_name", "thumb_path", "path", "image_path", "photo_path", "uuid" }

\* row.items() of a legacy row, as texts.  The notes cell is a sequence of
\* lines; the items of the cells that are not texts in the model (digest,
\* time, notes) are left out, their keys being in used_keys.
RowItems(r) ==
    << [k |-> "id", v |-> r.id], [k |-> "filename", v |-> r.filename],
       [k |-> "model", v |-> r.model], [k |-> "viewtype", v |-> r.viewtype],
       [k |-> "sequence", v |-> CellText(r.sequence)],
       [k |-> LEGACY_COLUMN, v |-> r.legacy] >>

\* legacy_to_notes, lines 81-89: one "key=value" line for every cell that is
\* not empty and whose column is not in used.
legacy_to_notes(r, used) ==
    LET keep == SelectSeq(RowItems(r), LAMBDA it : it.k \notin used /\ it.v # "")
    IN  [i \in 1..Len(keep) |-> keep[i].k \o "=" \o keep[i].v]

\* An empty digest cell.
NoDigest == <<"", "">>

\* find_disk_path, lines 63-79, over the photo files ph: the per-bag path
\* if that file exists, else a file of that name found by rglob under
\* data/02_Models (in the directories of the model there is at most one
\* when the per-bag path is absent); {} for None.
find_disk_path(model, filename, ph) ==
    IF model = "" \/ filename = "" THEN {}
    ELSE LET candidate == [dir |-> "data/02_Models/" \o model \o "/photos", name |-> filename]
         IN  IF candidate \in DOMAIN ph THEN {candidate}
             ELSE LET found == { sl \in DOMAIN ph : sl.name = filename }
                  IN  IF found = {} THEN {} ELSE {CHOOSE sl \in found : TRUE}

\* lines 110-120: the digest of the row, or the digest of the file on disk
\* when the row has none and the file is found.
MigrateDigest(r, model, filename, ph) ==
    IF r.sha256 # NoDigest THEN r.sha256
    ELSE LET at == find_disk_path(model, filename, ph)
         IN  IF at = {} THEN NoDigest ELSE ph[CHOOSE sl \in at : TRUE]

\* migrate_master_to_canonical.main, lines 100-154: the canonical row of a
\* legacy row r, the photo files being photos.  The legacy tables of the
\* model have a filename column and no uid.
MigrateRow(r) ==
    LET filename == IF r.filename = "" THEN "" ELSE BaseName(r.filename)
        p == parse_from_filename(filename)
        seq2 == IF IsIntText(p.seq) THEN Fmt02(ParseInt(p.seq)) ELSE "00"
        sha == MigrateDigest(r, p.model, filename, photos)
        sha8 == IF sha = NoDigest THEN "00000000" ELSE Sha8(sha)
    IN  [id |-> IF p.model # ""
                THEN p.model \o "_" \o p.view \o "_" \o seq2 \o "_" \o sha8
                ELSE IF filename # "" THEN filename ELSE sha8,
         filename |-> filename, model |-> p.model, viewtype |-> p.view,
         sequence |-> StrCell(seq2), sha256 |-> sha,
         processed_at |-> r.processed_at, manifest |-> r.manifest,
         notes |-> legacy_to_notes(r, used_keys), legacy |-> ""]

\* lines 156-160: DataFrame(rows), drop_duplicates, sort_values.
MigrateRows(old) ==
    SortRows(DropDuplicates([i \in 1..Len(old) |-> MigrateRow(old[i])], {}), FALSE)

\* str(x) of a cell read from a file: an empty cell is NaN, "nan".
AsStr(x) == IF x = "" THEN "nan" ELSE x

\* fix_sequence_and_id.main, lines 24-26: the sequence as a two-character
\* text.  astype(str) gives "3" for 3 and "3.0" for 3.0; the trailing ".0" is
\* cut, the first run of digits is taken ("0" when there is none) and padded.
\* The texts of the model's tables that are not numbers hold no digit.
Seq2(c) ==
    IF c.ty \in {"int", "flt"} THEN Fmt02(c.n)
    ELSE IF IsIntText(c.s) THEN Fmt02(ParseInt(c.s))
    ELSE IF IsFloatText(c.s) THEN Fmt02(FloatTable[c.s])
    ELSE "00"

\* fix_sequence_and_id.main, lines 30-34: the rows whose id is rebuilt.
\* nan_text: Series.astype(str) turns a missing value into the text "nan"
\* (object columns, pandas before 3.0), so that no model or view is empty;
\* otherwise (string columns, pandas 3) the value stays missing and the row
\* is left out.  The sequence has just been filled in every row.
CanRebuild(r, nan_text) == nan_text \/ (r.model # "" /\ r.viewtype # "")

\* fix_sequence_and_id.main, lines 24-46.
FixRows(rows, nan_text) ==
    SortRows([i \in 1..Len(rows) |->
                 [rows[i] EXCEPT
                     !.sequence = StrCell(Seq2(rows[i].sequence)),
                     !.id = IF CanRebuild(rows[i], nan_text)
                            THEN AsStr(rows[i].model) \o "_" \o AsStr(rows[i].viewtype) \o "_"
                                   \o Seq2(rows[i].sequence) \o "_" \o Sha8(rows[i].sha256)
                            ELSE rows[i].id]],
             TRUE)

\* repair_master_from_filename.main, lines 49-53: the sequence is replaced
\* when str(cell) is not a number or is zero.
SeqMissing(c) ==
    IF c.ty = "int" THEN c.n = 0
    ELSE IF c.ty = "flt" THEN TRUE      \* "3.0".isdigit() is False
    ELSE ~IsIntText(c.s) \/ ParseInt(c.s) = 0

\* repair_master_from_filename.main, lines 35-55.
RepairRows(rows) ==
    [i \in 1..Len(rows) |->
        LET r == rows[i]
            got == IF r.filename = "" THEN [got |-> FALSE]      \* str(nan)
                   ELSE parse_any(r.filename)
        IN  IF ~got.got THEN r
            ELSE [r EXCEPT
                    !.model = IF r.model = "" THEN got.model ELSE r.model,
                    !.viewtype = IF r.viewtype \in {"", "unknown"} THEN got.view
                                 ELSE r.viewtype,
                    !.sequence = IF SeqMissing(r.sequence) THEN StrCell(got.seq)
                                 ELSE r.sequence]]

\* repair_master_from_filename.main, lines 45-53: df.at[i, column] = text
\* on a column read_csv has typed as numbers (a sequence column of numbers and
\* empty cells, a model or viewtype column of empty cells only).  pandas
\* before 3.0 turns the column into an object column; pandas 3 raises
\* TypeError, at line 53 from within the except clause too.
RepairUpcasts(rows) ==
    LET numSeq == \A i \in 1..Len(rows) :
                     rows[i].sequence.ty \in {"int", "flt"} \/ rows[i].sequence = StrCell("")
        numModel == \A i \in 1..Len(rows) : rows[i].model = ""
        numView == \A i \in 1..Len(rows) : rows[i].viewtype = ""
    IN  \E i \in 1..Len(rows) :
            LET r == rows[i]
            IN  /\ r.filename # ""
                /\ parse_any(r.filename).got
                /\ \/ r.model = "" /\ numModel
                   \/ r.viewtype = "" /\ numView
                   \/ SeqMissing(r.sequence) /\ numSeq

\* The pass raises while it builds the table.  old_pandas: a pandas before 3.0.
PassRaises(kind, content, old_pandas) ==
    kind = "repair" /\ ~old_pandas /\ RepairUpcasts(ReadCsv(content))

\* The text a pass hands to atomic_write_text for the table it has read.
PassOutput(kind, content, nan_text) ==
    LET old == ReadCsv(content)
    IN  IF kind = "migrate" THEN ToCsv(MigrateRows(old), "wide")
        ELSE IF kind = "fix" THEN ToCsv(FixRows(old, nan_text), content[1].cols)
        ELSE ToCsv(RepairRows(old), content[1].cols)

\* generate_per_bag_ingest.load_existing_hashes: csv.DictReader takes the
\* first line for the field names; a first line that is not a header names
\* no sha256 field.
load_existing_hashes(f) ==
    IF ~Exists(f, MASTER) \/ f[MASTER] = <<>> THEN {}
    ELSE IF f[MASTER][1].t # "hdr" THEN {}
    ELSE { f[MASTER][i].sha256 :
             i \in { j \in 2..Len(f[MASTER]) : f[MASTER][j].t = "row" } }

\* generate_per_bag_ingest.main, lines 186-198: the row of one input file,
\* as the line csv.DictWriter writes for MASTER_CSV_HEADER.
GenRow(file, k) ==
    LET ps == parse_filename(file.name)
    IN  [t |-> "row", cols |-> "narrow",
         id |-> Join(BagArg) \o "_" \o ps.sequence \o "_" \o file.name,
         filename |-> Join(GenDirChars) \o file.name,
         model |-> Join(BagArg), viewtype |-> ps.viewtype, sequence |-> ps.sequence,
         sha256 |-> file.sha, processed_at |-> k, manifest |-> "", notes |-> <<>>,
         legacy |-> ""]

(***************************************************************************)
(* Values of the activation records of entry points that are not running.  *)
(***************************************************************************)
RunOff ==
    [pc |-> "idle", dry |-> FALSE, k |-> 0, existing |-> <<>>, cols |-> "wide",
     new_rows |-> <<>>, file_map |-> EmptyMap, pending |-> <<>>,
     manifest_by_model |-> EmptyMap, out_csv |-> <<>>, quarantined |-> FALSE,
     persisted |-> FALSE]
\* A pass over the table (migrate, fix_sequence_and_id,
\* repair_master_from_filename); pre is the master file as the pass found
\* it, computed whether out_csv holds the table the pass has built (history).
MigOff ==
    [pc |-> "idle", kind |-> "migrate", nan_text |-> TRUE, rc |-> 0, pre |-> NoFile,
     out_csv |-> <<>>, computed |-> FALSE]
GenOff ==
    [pc |-> "idle", dry |-> FALSE, k |-> 0, files |-> <<>>, existing_hashes |-> {},
     is_new |-> FALSE]
CallOff == [fn |-> "", pc |-> "off"]
\* prev_status, prev_dry: how the previous ingest run ended and its mode;
\* changed, prev_changed: whether the photo directories changed since the
\* current run started, and between the start of the previous run and the
\* start of the current one; start_fs, prev_start_fs: the files when the
\* current and the previous run started; order, prev_order: the order in which
\* they listed the photo files; init_master: the master table file before the
\* first run.
HistOff ==
    [prev_status |-> "none", prev_dry |-> FALSE, changed |-> FALSE, prev_changed |-> FALSE,
     start_fs |-> EmptyMap, prev_start_fs |-> EmptyMap, order |-> <<>>, prev_order |-> <<>>,
     init_master |-> NoFile]

(***************************************************************************)
(* bag_ingest.main, one ingest run.                                        *)
(*   pc: "idle", "load", "scan", "manifests", "in_append", "merge",        *)
(*       "persist", "done", "aborted".                                     *)
(* --thumbs is left out (thumbnails are not part of the catalog), and the  *)
(* root directory exists.                                                  *)
(***************************************************************************)
RunIdle == run.pc \in {"idle", "done", "aborted"}

\* The photo directories change only between runs: a file appears.
AddPhoto ==
    /\ RunIdle
    /\ Cardinality(DOMAIN photos) < MaxFiles
    /\ \E slot \in Slots \ DOMAIN photos :
          \E d \in SlotDigests(slot) : photos' = Put(photos, slot, d)
    /\ hist' = [hist EXCEPT !.changed = TRUE]
    /\ UNCHANGED <<fs, tmpctr, aw, ap, run, ncalls, mig, gen, call>>

\* python -m scripts.bag_ingest [--dry-run]
MainStart ==
    /\ RunIdle
    /\ ncalls < MaxCalls
    /\ \E dry \in BOOLEAN :
          run' = [RunOff EXCEPT !.pc = "load", !.dry = dry, !.k = ncalls + 1]
    /\ hist' = [hist EXCEPT !.prev_status = IF run.pc = "idle" THEN "none" ELSE run.pc,
                            !.prev_dry = run.dry,
                            !.prev_changed = hist.changed,
                            !.changed = FALSE,
                            !.prev_start_fs = hist.start_fs,
                            !.start_fs = fs,
                            !.prev_order = hist.order,
                            !.order = <<>>]
    /\ ncalls' = ncalls + 1
    /\ aw' = AwOff
    /\ ap' = ApOff
    /\ UNCHANGED <<fs, tmpctr, photos, mig, gen, call>>

\* lines 196-199: existing = load_existing_master(master_csv)
MainLoad ==
    /\ run.pc = "load"
    /\ LET r == load_existing_master(fs)
       IN  /\ fs' = r.fs
           /\ run' = [run EXCEPT !.pc = "scan", !.existing = r.table, !.cols = r.cols,
                                 !.quarantined = r.quarantined]
    /\ UNCHANGED <<tmpctr, aw, ap, photos, ncalls, hist, mig, gen, call>>

\* lines 205-265: the scan; with no new row the run ends here.
MainScan ==
    /\ run.pc = "scan"
    /\ \E q \in ScanOrders(photos) :
          LET rows == ScanRows(q, photos, run.existing, run.k)
          IN  /\ run' = [run EXCEPT !.new_rows = rows,
                                 !.file_map = FileMap(q),
                                 !.pending = GroupOrder(rows, {}),
                                 !.pc = IF rows = <<>> THEN "done" ELSE "manifests"]
             /\ hist' = [hist EXCEPT !.order = q]
    /\ UNCHANGED <<fs, tmpctr, aw, ap, photos, ncalls, mig, gen, call>>

\* lines 277-278: manifest_path = ensure_checksums_append(model, repo_root, pairs)
MainAppendCall ==
    /\ run.pc = "manifests"
    /\ run.pending # <<>>
    /\ ap' = ApBegin(run.pending[1], ByModel(run.new_rows, run.file_map, run.pending[1]))
    /\ run' = [run EXCEPT !.pc = "in_append"]
    /\ UNCHANGED <<fs, tmpctr, aw, photos, ncalls, hist, mig, gen, call>>

\* line 279: manifest_by_model[model] = manifest_path, and the next group.
MainAppendReturn ==
    /\ run.pc = "in_append"
    /\ ap.pc = "done"
    /\ run' = [run EXCEPT
                 !.manifest_by_model = Put(run.manifest_by_model, ap.model, ManifestPath(ap.model)),
                 !.pending = Tail(run.pending),
                 !.pc = IF Tail(run.pending) = <<>> THEN "merge" ELSE "manifests"]
    /\ UNCHANGED <<fs, tmpctr, aw, ap, photos, ncalls, hist, mig, gen, call>>

\* lines 282-305: stamp, merge, sort, serialize; in a dry run report and
\* return, else atomic_write_text(master_csv, out_csv).
MainMerge ==
    /\ run.pc = "merge"
    /\ LET rows == Stamp(run.new_rows, run.manifest_by_model)
           out_csv == ToCsv(Combined(run.existing, rows), run.cols)
       IN  /\ run' = [run EXCEPT !.new_rows = rows, !.out_csv = out_csv,
                                 !.pc = IF run.dry THEN "done" ELSE "persist"]
           /\ aw' = IF run.dry THEN aw ELSE AwBegin(MASTER, out_csv, "w")
    /\ UNCHANGED <<fs, tmpctr, ap, photos, ncalls, hist, mig, gen, call>>

\* lines 306-325: atomic_write_text has returned; the run ends.
MainPersistReturn ==
    /\ run.pc = "persist"
    /\ aw.pc = "done"
    /\ run' = [RunOff EXCEPT !.pc = "done", !.dry = run.dry, !.k = run.k,
                             !.new_rows = run.new_rows, !.quarantined = run.quarantined,
                             !.persisted = TRUE]
    /\ UNCHANGED <<fs, tmpctr, aw, ap, photos, ncalls, hist, mig, gen, call>>

\* The run is aborted (an unrecoverable error, or the process is terminated):
\* the process and its variables are gone, the files stay as they are.
\* persisted records whether atomic_write_text had already returned.
MainCrash ==
    /\ ~RunIdle
    /\ run' = [RunOff EXCEPT !.pc = "aborted", !.dry = run.dry, !.k = run.k,
                             !.persisted = (run.pc = "persist" /\ aw.pc = "done")]
    /\ aw' = AwOff
    /\ ap' = ApOff
    /\ UNCHANGED <<fs, tmpctr, photos, ncalls, hist, mig, gen, call>>

Init ==
    /\ \E m \in {NoFile, <<>>, <<Junk>>} :
          /\ fs = IF m = NoFile THEN EmptyMap ELSE Put(EmptyMap, MASTER, m)
          /\ hist = [HistOff EXCEPT !.init_master = m]
    /\ tmpctr = 0
    /\ aw = AwOff
    /\ ap = ApOff
    /\ run = RunOff
    /\ photos = EmptyMap
    /\ ncalls = 0
    /\ mig = MigOff
    /\ gen = GenOff
    /\ call = CallOff

Next ==
    \/ AddPhoto \/ MainStart \/ MainLoad \/ MainScan \/ MainAppendCall
    \/ MainAppendReturn \/ MainMerge \/ MainPersistReturn \/ MainCrash
    \/ ApLoad \/ ApTmpOpen \/ ApTmpWrite \/ ApMergedOpen \/ ApMergedOld
    \/ ApMergedNew \/ ApMergedReplace \/ ApUnlink \/ ApTmpReplace
    \/ AwCreate \/ AwWrite \/ AwReplace

Spec == Init /\ [][Next]_vars

\* The ingest runs that are left to run to their end.
NextRuns ==
    \/ AddPhoto \/ MainStart \/ MainLoad \/ MainScan \/ MainAppendCall
    \/ MainAppendReturn \/ MainMerge \/ MainPersistReturn
    \/ ApLoad \/ ApTmpOpen \/ ApTmpWrite \/ ApMergedOpen \/ ApMergedOld
    \/ ApMergedNew \/ ApMergedReplace \/ ApUnlink \/ ApTmpReplace
    \/ AwCreate \/ AwWrite \/ AwReplace

SpecRuns == Init /\ [][NextRuns]_vars

(***************************************************************************)
(* Claims about the ingest driver.                                         *)
(***************************************************************************)
\* The groups of the universe.
Groups == { ParsedNames[s.name].model : s \in Slots } \ {""}

DataLines(content) == SubSeq(content, 2, Len(content))

SameCatalog(f, g) ==
    /\ Snapshot(f, MASTER) = Snapshot(g, MASTER)
    /\ \A m \in Groups : Snapshot(f, ManifestPath(m)) = Snapshot(g, ManifestPath(m))

\* Two completed non-preview runs in a row, the directories unchanged between
\* the start of the first and the start of the second.
SecondRunOfTwo ==
    /\ run.pc = "done" /\ ~run.dry
    /\ hist.prev_status = "done" /\ ~hist.prev_dry
    /\ ~hist.prev_changed

\* C1: idempotent re-run.  The second of two non-preview runs in a row over
\* unchanged photo directories creates no record, leaves the master table file
\* as the first run left it and adds no line to any manifest.
RerunIsIdempotent ==
    SecondRunOfTwo =>
        /\ run.new_rows = <<>>
        /\ SameCatalog(fs, hist.start_fs)

\* C1 witness: the second run has ended, after a first run that ingested two
\* files with the same bytes (one record, and a manifest on file).
RerunAfterIngest ==
    /\ SecondRunOfTwo
    /\ Exists(fs, MASTER) /\ Len(fs[MASTER]) >= 2
    /\ \E m \in Groups : Exists(fs, ManifestPath(m))
    /\ \E a, b \in DOMAIN photos :
          /\ a # b /\ photos[a] = photos[b]
          /\ ParsedNames[a.name].model # "" /\ ParsedNames[b.name].model # ""

\* C2: starting from an absent or empty master table, the master table file
\* never holds two records with the same digest.
MasterDigestsUnique ==
    (hist.init_master \in {NoFile, <<>>} /\ Exists(fs, MASTER) /\ ReadOk(fs[MASTER])) =>
        \A i, j \in 2..Len(fs[MASTER]) :
            i # j => fs[MASTER][i].sha256 # fs[MASTER][j].sha256

\* C2 witness: a table was persisted by a run that found two parseable files
\* with the same bytes under different names.
PersistedWithTwinFiles ==
    /\ hist.init_master \in {NoFile, <<>>}
    /\ run.pc = "done" /\ run.persisted
    /\ Len(run.new_rows) >= 2
    /\ \E i, j \in 1..Len(run.new_rows) :
          /\ i # j
          /\ run.new_rows[i].sha256 = run.new_rows[j].sha256
          /\ run.new_rows[i].filename # run.new_rows[j].filename
    /\ Exists(fs, MASTER) /\ Len(fs[MASTER]) >= 2

\* C4: a run with --dry-run leaves every file as it was before the run.
DryRunWritesNothing ==
    (run.dry /\ run.pc # "idle") => fs = hist.start_fs

\* C8: a run aborted before the table persist step has completed leaves the
\* master table and every manifest as they were before the run.
AbortLeavesCatalogUntouched ==
    (run.pc = "aborted" /\ ~run.persisted) => SameCatalog(fs, hist.start_fs)

\* The data lines a run found in the master table: none when the file was
\* absent, empty or unreadable.
LoadedLines(f) ==
    IF Exists(f, MASTER) /\ f[MASTER] # <<>> /\ ReadOk(f[MASTER])
    THEN DataLines(f[MASTER]) ELSE <<>>

\* The cells that say which record a row is (the sequence, whose spelling
\* read_csv and to_csv change, is left to the sort-order claim).
Provenance(r) ==
    [id |-> r.id, filename |-> r.filename, model |-> r.model, viewtype |-> r.viewtype,
     sha256 |-> r.sha256, processed_at |-> r.processed_at, manifest |-> r.manifest]

\* The first row of rows that has digest d.
FirstWith(rows, d) ==
    rows[CHOOSE i \in 1..Len(rows) :
            rows[i].sha256 = d /\ \A j \in 1..(i - 1) : rows[j].sha256 # d]

\* C11: in the table an ingest run has persisted, every digest has exactly one
\* record: the record of the table the run loaded when the digest was stored
\* there, else the record of the first file with that digest the run
\* processed (run.new_rows is in processing order).
MergeKeepsFirstOccurrence ==
    (run.pc = "done" /\ run.persisted) =>
        LET old == LoadedLines(hist.start_fs)
            new == run.new_rows
            out == DataLines(fs[MASTER])
        IN  \A d \in Digests :
                LET hits == { i \in 1..Len(out) : out[i].sha256 = d }
                IN  IF \E i \in 1..Len(old) : old[i].sha256 = d
                    THEN /\ Cardinality(hits) = 1
                         /\ \A i \in hits : Provenance(out[i]) = Provenance(FirstWith(old, d))
                    ELSE IF \E i \in 1..Len(new) : new[i].sha256 = d
                    THEN /\ Cardinality(hits) = 1
                         /\ \A i \in hits : Provenance(out[i]) = Provenance(FirstWith(new, d))
                    ELSE hits = {}

\* C11 witness: a persisted run processed two files with the same bytes, first
\* the one whose name sorts last, and the table holds the record with that name.
PersistedFirstProcessedTwin ==
    /\ run.pc = "done" /\ run.persisted
    /\ Len(run.new_rows) = 2
    /\ run.new_rows[1].sha256 = run.new_rows[2].sha256
    /\ run.new_rows[1].filename = Join(NameFront)
    /\ run.new_rows[2].filename = Join(NameBack)
    /\ \E i \in 2..Len(fs[MASTER]) : fs[MASTER][i].filename = Join(NameFront)

\* The run in progress (or just ended) found a master file it could not parse.
FoundCorruptMaster ==
    /\ run.pc \notin {"idle", "load"}
    /\ Exists(hist.start_fs, MASTER)
    /\ hist.start_fs[MASTER] # <<>>
    /\ ~ReadOk(hist.start_fs[MASTER])

SampleLines == { [sha |-> DigestX, path |-> "x"] }

\* The sequences over S of length at most n.
SeqsUpTo(S, n) == UNION { [1..k -> S] : k \in 0..n }

SampleTexts == SeqsUpTo(SampleLines, MaxLines)

InitAtomic ==
    /\ \E old \in SampleTexts \cup {NoFile} :
           fs = IF old = NoFile THEN EmptyMap ELSE Put(EmptyMap, MASTER, old)
    /\ tmpctr = 0
    /\ aw = AwOff
    /\ ap = ApOff
    /\ run = RunOff
    /\ photos = EmptyMap
    /\ ncalls = 0
    /\ hist = HistOff
    /\ mig = MigOff
    /\ gen = GenOff
    /\ call = CallOff

\* atomic_write_text(path, text) or atomic_write_bytes(path, data) is called.
AwCall ==
    /\ AwIdle
    /\ ncalls < MaxCalls
    /\ \E path \in {MASTER, SIMPLE}, text \in SampleTexts, mode \in {"w", "wb"} :
           aw' = AwBegin(path, text, mode)
    /\ ncalls' = ncalls + 1
    /\ UNCHANGED <<fs, tmpctr, ap, run, photos, hist, mig, gen, call>>

\* The process is terminated inside the call.
AwCrash ==
    /\ AwRunning
    /\ aw' = AwKill
    /\ UNCHANGED <<fs, tmpctr, ap, run, photos, ncalls, hist, mig, gen, call>>

NextAtomic == AwCall \/ AwCreate \/ AwWrite \/ AwReplace \/ AwCrash

SpecAtomic == InitAtomic /\ [][NextAtomic]_vars

\* C5: atomic writer.  Until the final rename (also when the call is
\* terminated before it) the target is what it was before the call; once
\* the rename has happened the target holds the whole new content; the
\* target never holds anything else (no partial or mixed content).
AtomicWriterKeepsTarget ==
    aw.pc # "off" =>
        /\ aw.pc \in {"create", "write", "replace", "crashed"}
              => Snapshot(fs, aw.path) = aw.pre
        /\ aw.pc = "done" => Snapshot(fs, aw.path) = aw.text
        /\ Snapshot(fs, aw.path) \in {aw.pre, aw.text}

\* C5 witness: terminated after the temporary file was written in full and
\* before the rename, over an existing target that differs from the new text.
AtomicWriterCrashedBeforeRename ==
    /\ aw.pc = "crashed"
    /\ aw.tmp # "" /\ Exists(fs, aw.tmp)
    /\ aw.text # <<>> /\ fs[aw.tmp] = aw.text
    /\ aw.pre # NoFile /\ aw.pre # aw.text /\ aw.pre # <<>>

(***************************************************************************)
(* SpecAppend: ensure_checksums_append called directly on one group, with  *)
(* any input list, and terminated at any step.                             *)
(***************************************************************************)
GroupA == "BA2037-089"

InputPaths ==
    { [root |-> "repo", rel |-> PathOf([dir |-> DirA, name |-> Join(NameFront)])],
      [root |-> "other", rel |-> Join(NameBack)] }

InputPairs == { [path |-> p, sha |-> d] : p \in InputPaths, d \in Digests }

InitAppend ==
    /\ fs = EmptyMap
    /\ tmpctr = 0
    /\ aw = AwOff
    /\ ap = ApOff
    /\ run = RunOff
    /\ photos = EmptyMap
    /\ ncalls = 0
    /\ hist = HistOff
    /\ mig = MigOff
    /\ gen = GenOff
    /\ call = CallOff

\* ensure_checksums_append(model, root, files_with_hashes) is called.
ApCall ==
    /\ ApIdle
    /\ ncalls < MaxCalls
    /\ \E input \in SeqsUpTo(InputPairs, MaxInput) : ap' = ApBegin(GroupA, input)
    /\ ncalls' = ncalls + 1
    /\ UNCHANGED <<fs, tmpctr, aw, run, photos, hist, mig, gen, call>>

\* The process is terminated inside the call.
ApCrash ==
    /\ ApRunning
    /\ ap' = ApKill
    /\ UNCHANGED <<fs, tmpctr, aw, run, photos, ncalls, hist, mig, gen, call>>

NextAppend ==
    \/ ApCall \/ ApLoad \/ ApTmpOpen \/ ApTmpWrite \/ ApMergedOpen \/ ApMergedOld
    \/ ApMergedNew \/ ApMergedReplace \/ ApUnlink \/ ApTmpReplace \/ ApCrash

SpecAppend == InitAppend /\ [][NextAppend]_vars

Content(snap) == IF snap = NoFile THEN <<>> ELSE snap

HasDuplicateDigest(content) ==
    \E i, j \in 1..Len(content) : i # j /\ content[i].sha = content[j].sha

\* C3: a manifest never contains two lines with the same digest.
ManifestDigestsUnique ==
    \A m \in {GroupA} :
        Exists(fs, ManifestPath(m)) => ~HasDuplicateDigest(fs[ManifestPath(m)])

\* The digests of the input that the manifest did not hold before the call.
NewDigests(a) == { a.input[i].sha : i \in 1..Len(a.input) } \ ExistingDigests(Content(a.pre))

\* The input entries that bring a digest the manifest does not hold yet, each
\* digest once, in input order.
RECURSIVE FirstNew(_, _)
FirstNew(input, seen) ==
    IF input = <<>> THEN <<>>
    ELSE IF input[1].sha \in seen
         THEN FirstNew(Tail(input), seen)
         ELSE <<[sha |-> input[1].sha, path |-> RelTxt(input[1].path)]>>
                  \o FirstNew(Tail(input), seen \cup {input[1].sha})

\* C6: a completed append leaves the previous content, unchanged, followed by
\* exactly one line for each of the N distinct digests the manifest did not
\* hold, in input order; with no new digest the manifest file is not written.
AppendAddsExactlyTheNewDigests ==
    ap.pc = "done" =>
        LET out == Snapshot(fs, ManifestPath(ap.model))
            N == Cardinality(NewDigests(ap))
        IN  IF N = 0
            THEN ~ap.wrote /\ out = ap.pre
            ELSE /\ ap.wrote
                 /\ Len(out) = Len(Content(ap.pre)) + N
                 /\ out = Content(ap.pre) \o FirstNew(ap.input, ExistingDigests(Content(ap.pre)))

\* What a completed append leaves: the old lines followed by the new ones.
PostAppend(a) ==
    LET rows == NewRows(a.input, ExistingDigests(Content(a.pre)))
    IN  IF rows = <<>> THEN a.pre ELSE Content(a.pre) \o rows

\* C7: at every step of an append, and after a termination at any step, the
\* manifest path holds the whole manifest as it was before the call or the
\* whole manifest after it (all old lines followed by all new lines).
AppendIsCrashAtomic ==
    ap.pc # "off" =>
        /\ Snapshot(fs, ManifestPath(ap.model)) \in {ap.pre, PostAppend(ap)}
        /\ ap.pc = "done" => Snapshot(fs, ManifestPath(ap.model)) = PostAppend(ap)
        /\ ~ap.wrote => Snapshot(fs, ManifestPath(ap.model)) = ap.pre

\* C7 witness: terminated while the merged file held only the old lines, with
\* new lines to append to an existing manifest.
AppendCrashedWhileMerging ==
    /\ ap.pc = "crashed"
    /\ ap.rows # <<>>
    /\ ap.pre # NoFile /\ ap.pre # <<>>
    /\ Exists(fs, MergedPath(ap.model))
    /\ fs[MergedPath(ap.model)] = ap.pre
    /\ fs[ManifestPath(ap.model)] = ap.pre

(***************************************************************************)
(* The passes over the table: migrate_master_to_canonical.main,            *)
(* fix_sequence_and_id.main and repair_master_from_filename.main.  They    *)
(* differ in the table they compute and in migrate's backup step.          *)
(*   pc: "idle", "check", "read", "backup", "write", "in_write", "done",   *)
(*       "aborted".                                                        *)
(***************************************************************************)
PassKinds == {"migrate", "fix", "repair"}

EntryIdle ==
    /\ RunIdle
    /\ mig.pc \in {"idle", "done", "aborted"}
    /\ gen.pc \in {"idle", "done", "aborted"}

\* One of the passes of kinds is started, under one of the pandas builds:
\* nan_text for a pandas before 3.0 (the build makes no difference in migrate).
PassStartOf(kinds) ==
    /\ EntryIdle
    /\ ncalls < MaxCalls
    /\ \E kind \in kinds, nan_text \in BOOLEAN :
          /\ kind = "migrate" => nan_text
          /\ mig' = [MigOff EXCEPT !.pc = "check", !.kind = kind, !.nan_text = nan_text,
                                   !.pre = Snapshot(fs, MASTER)]
    /\ ncalls' = ncalls + 1
    /\ aw' = AwOff
    /\ gen' = GenOff
    /\ UNCHANGED <<fs, tmpctr, ap, run, photos, hist, call>>

\* python -m scripts.migrate_master_to_canonical (or one of the repair passes)
PassStart == PassStartOf(PassKinds)

\* if not MASTER.exists(): return (2 from migrate, 0 from the repair passes)
PassCheck ==
    /\ mig.pc = "check"
    /\ mig' = IF Exists(fs, MASTER)
              THEN [mig EXCEPT !.pc = "read"]
              ELSE [mig EXCEPT !.pc = "done", !.rc = IF mig.kind = "migrate" THEN 2 ELSE 0]
    /\ UNCHANGED <<fs, tmpctr, aw, ap, run, photos, ncalls, hist, gen, call>>

\* pd.read_csv(MASTER) and the table built from it.  read_csv raises on an
\* empty or untokenizable file, which ends the pass; a file that starts with
\* a data line is outside the tables modelled and ends the pass as well.  So
\* does an assignment that pandas refuses.
PassRead ==
    /\ mig.pc = "read"
    /\ mig' = IF ReadOk(fs[MASTER]) /\ ~PassRaises(mig.kind, fs[MASTER], mig.nan_text)
              THEN [mig EXCEPT !.out_csv = PassOutput(mig.kind, fs[MASTER], mig.nan_text),
                               !.computed = TRUE,
                               !.pc = IF mig.kind = "migrate" THEN "backup" ELSE "write"]
              ELSE [mig EXCEPT !.pc = "aborted"]
    /\ UNCHANGED <<fs, tmpctr, aw, ap, run, photos, ncalls, hist, gen, call>>

\* migrate lines 163-168: MASTER.replace(bkp).  The rename of an existing
\* file succeeds in the model's file system, so the except branch is not taken.
MigBackup ==
    /\ mig.pc = "backup"
    /\ fs' = Replace(fs, MASTER, BKP)
    /\ mig' = [mig EXCEPT !.pc = "write"]
    /\ UNCHANGED <<tmpctr, aw, ap, run, photos, ncalls, hist, gen, call>>

\* atomic_write_text(MASTER, df.to_csv(index=False))
PassWrite ==
    /\ mig.pc = "write"
    /\ aw' = AwBegin(MASTER, mig.out_csv, "w")
    /\ mig' = [mig EXCEPT !.pc = "in_write"]
    /\ UNCHANGED <<fs, tmpctr, ap, run, photos, ncalls, hist, gen, call>>

PassReturn ==
    /\ mig.pc = "in_write"
    /\ aw.pc = "done"
    /\ mig' = [mig EXCEPT !.pc = "done"]
    /\ UNCHANGED <<fs, tmpctr, aw, ap, run, photos, ncalls, hist, gen, call>>

\* The process of the pass is terminated.
PassCrash ==
    /\ mig.pc \in {"check", "read", "backup", "write", "in_write"}
    /\ mig' = [mig EXCEPT !.pc = "aborted"]
    /\ aw' = AwKill
    /\ UNCHANGED <<fs, tmpctr, ap, run, photos, ncalls, hist, gen, call>>

(***************************************************************************)
(* generate_per_bag_ingest.main with --bag BA2037-089.  An input file is   *)
(* [name, sha]: its base name and the digest of the file at out_path (the  *)
(* copy or the resized image).  The photo copies and the skipped-filenames *)
(* report are files outside the catalog and are left out.                  *)
(*   pc: "idle", "load", "loop", "append_open", "append_write", "done",    *)
(*       "aborted".                                                        *)
(***************************************************************************)
GenInputs ==
    { [name |-> Join(NameFront), sha |-> DigestX],
      [name |-> Join(NameBack), sha |-> DigestX],
      [name |-> Join(NameTop), sha |-> DigestY],
      [name |-> Join(NameSide), sha |-> DigestY],
      [name |-> Join(NameRandom), sha |-> DigestX] }

\* line 144: files = sorted(p for p in in_dir.iterdir() if p.is_file())
SortedFiles(S) ==
    CHOOSE q \in Perms(S) : \A i, j \in 1..Len(q) : i < j => StrLess(q[i].name, q[j].name)

GenStart ==
    /\ EntryIdle
    /\ ncalls < MaxCalls
    /\ \E dry \in BOOLEAN :
       \E S \in { T \in SUBSET GenInputs : Cardinality(T) <= MaxFiles } :
          gen' = [GenOff EXCEPT !.pc = "load", !.dry = dry, !.k = ncalls + 1,
                                !.files = SortedFiles(S)]
    /\ ncalls' = ncalls + 1
    /\ aw' = AwOff
    /\ mig' = MigOff
    /\ UNCHANGED <<fs, tmpctr, ap, run, photos, hist, call>>

\* line 137: existing_hashes = load_existing_hashes(master_csv)
GenLoad ==
    /\ gen.pc = "load"
    /\ gen' = [gen EXCEPT !.pc = "loop", !.existing_hashes = load_existing_hashes(fs)]
    /\ UNCHANGED <<fs, tmpctr, aw, ap, run, photos, ncalls, hist, mig, call>>

\* lines 147-204, one file up to the append: a bad name, another bag's file
\* and a known digest are skipped; a dry run appends nothing.
GenFile ==
    /\ gen.pc = "loop"
    /\ gen' = IF gen.files = <<>> THEN [gen EXCEPT !.pc = "done"]
              ELSE LET p == gen.files[1]
                       ps == parse_filename(p.name)
                   IN  IF \/ ~ps.ok
                          \/ ps.upper # Join(MapSeq(BagArg, UpperCh))
                          \/ p.sha \in gen.existing_hashes
                          \/ gen.dry
                       THEN [gen EXCEPT !.files = Tail(gen.files)]
                       ELSE [gen EXCEPT !.pc = "append_open"]
    /\ UNCHANGED <<fs, tmpctr, aw, ap, run, photos, ncalls, hist, mig, call>>

\* append_row_to_csv lines 101-102: is_new, then open(csv_path, "a"), which
\* creates the file when there is none.
GenAppendOpen ==
    /\ gen.pc = "append_open"
    /\ gen' = [gen EXCEPT !.pc = "append_write", !.is_new = ~Exists(fs, MASTER)]
    /\ fs' = IF Exists(fs, MASTER) THEN fs ELSE Put(fs, MASTER, <<>>)
    /\ UNCHANGED <<tmpctr, aw, ap, run, photos, ncalls, hist, mig, call>>

\* append_row_to_csv lines 103-106 and main line 202: the header when the
\* file is new, the row at the end of the file, existing_hashes.add(sha256).
GenAppendWrite ==
    /\ gen.pc = "append_write"
    /\ fs' = Put(fs, MASTER,
                 fs[MASTER] \o (IF gen.is_new THEN <<Header("narrow")>> ELSE <<>>)
                            \o <<GenRow(gen.files[1], gen.k)>>)
    /\ gen' = [gen EXCEPT !.pc = "loop",
                          !.existing_hashes = gen.existing_hashes \cup {gen.files[1].sha},
                          !.files = Tail(gen.files)]
    /\ UNCHANGED <<tmpctr, aw, ap, run, photos, ncalls, hist, mig, call>>

\* The process of the per-bag ingest is terminated.
GenCrash ==
    /\ gen.pc \in {"load", "loop", "append_open", "append_write"}
    /\ gen' = [gen EXCEPT !.pc = "aborted"]
    /\ UNCHANGED <<fs, tmpctr, aw, ap, run, photos, ncalls, hist, mig, call>>

(***************************************************************************)
(* The entry points other than bag_ingest, one at a time, over a master    *)
(* table that is absent, empty, unreadable, or one bag_ingest has written. *)
(***************************************************************************)
IngestedRows ==
    { NewRow([dir |-> DirA, name |-> Join(NameFront)], DigestX, 0),
      NewRow([dir |-> DirA, name |-> Join(NameBack)], DigestY, 0) }

IngestedTables == { ToCsv(Combined(<<>>, q), "wide") : q \in UNION { Perms(S) : S \in SUBSET IngestedRows } }

InitPasses ==
    /\ \E m \in {NoFile, <<>>, <<Junk>>} \cup IngestedTables :
          /\ fs = IF m = NoFile THEN EmptyMap ELSE Put(EmptyMap, MASTER, m)
          /\ hist = [HistOff EXCEPT !.init_master = m]
    /\ tmpctr = 0
    /\ aw = AwOff
    /\ ap = ApOff
    /\ run = RunOff
    /\ photos = EmptyMap
    /\ ncalls = 0
    /\ mig = MigOff
    /\ gen = GenOff
    /\ call = CallOff

NextPasses ==
    \/ PassStart \/ PassCheck \/ PassRead \/ MigBackup \/ PassWrite \/ PassReturn
    \/ PassCrash
    \/ GenStart \/ GenLoad \/ GenFile \/ GenAppendOpen \/ GenAppendWrite \/ GenCrash
    \/ AwCreate \/ AwWrite \/ AwReplace

SpecPasses == InitPasses /\ [][NextPasses]_vars

\* C9: while migrate_master_to_canonical runs, and after it has ended or has
\* been terminated at any step, the master path holds the complete table the
\* run found or the complete migrated table; and after a run that has
\* migrated the table, the backup file holds the table the run found.
MigrationKeepsMasterAndBackup ==
    (mig.kind = "migrate" /\ mig.pc # "idle") =>
        /\ \/ Snapshot(fs, MASTER) = mig.pre
           \/ mig.computed /\ Snapshot(fs, MASTER) = mig.out_csv
        /\ (mig.pc = "done" /\ mig.rc = 0) => Snapshot(fs, BKP) = mig.pre

\* The data lines of the master file have the columns of its header line.
OneColumnSchema ==
    Exists(fs, MASTER) =>
        \A i \in 2..Len(fs[MASTER]) :
            fs[MASTER][i].t = "row" =>
                /\ fs[MASTER][1].t = "hdr"
                /\ fs[MASTER][i].cols = fs[MASTER][1].cols

\* C10: every step that leaves new content at the master path is the rename
\* of the atomic writer, putting there the whole serialized table; and the
\* rows of the master file always have the columns of its header.
MasterWrittenOnlyByAtomicWriter ==
    /\ []OneColumnSchema
    /\ [][(Exists(fs', MASTER) /\ Snapshot(fs', MASTER) # Snapshot(fs, MASTER))
            => (aw.pc = "replace" /\ aw.path = MASTER /\ fs'[MASTER] = aw.text)]_vars

\* {group}_{view}_{sequence:02d}_{digest[:8]} of a line of the master file.
CanonicalId(l) ==
    l.model \o "_" \o l.viewtype \o "_" \o Fmt02(ParseInt(l.sequence)) \o "_" \o Sha8(l.sha256)

\* The lines of the master file that the ingest entry point now running, or
\* the last to have run, has added (its rows carry its processed_at stamp).
AddedLines ==
    IF ~Exists(fs, MASTER) THEN {}
    ELSE { fs[MASTER][i] : i \in { j \in 1..Len(fs[MASTER]) :
              /\ fs[MASTER][j].t = "row"
              /\ \/ run.k > 0 /\ fs[MASTER][j].processed_at = run.k
                 \/ gen.k > 0 /\ fs[MASTER][j].processed_at = gen.k } }

\* C14: every record an ingest entry point (bag_ingest,
\* generate_per_bag_ingest) adds to the master table has the id
\* {group}_{view}_{two-digit sequence}_{first 8 characters of its digest}.
AddedIdsAreCanonical ==
    \A l \in AddedLines : l.id = CanonicalId(l)

\* C15: after a completed run that was not a preview, every record the run
\* added to the table carries the path of the manifest of its group, and that
\* manifest has a line with the record's digest.
AddedRecordsAreStamped ==
    (run.pc = "done" /\ run.persisted /\ ~run.dry) =>
        \A l \in AddedLines :
            /\ l.manifest = ManifestPath(l.model)
            /\ Exists(fs, l.manifest)
            /\ \E i \in 1..Len(fs[l.manifest]) : fs[l.manifest][i].sha = l.sha256

\* C15 witness: a completed run has added two records of one group, from
\* files of the same name in two directories.
StampedTwoRecordsOfOneName ==
    /\ run.pc = "done" /\ run.persisted /\ ~run.dry
    /\ Cardinality(AddedLines) = 2
    /\ \A l \in AddedLines : l.filename = Join(NameFront)
    /\ Len(fs[ManifestPath("BA2037-089")]) = 2


(***************************************************************************)
(* An ingest run that is terminated, and the run after it.                 *)
(***************************************************************************)
\* lines 275-279: the appends of a run that is left alone, group by group.
RECURSIVE AppendAll(_, _, _, _)
AppendAll(f, groups, rows, fmap) ==
    IF groups = <<>> THEN f
    ELSE LET path == ManifestPath(groups[1])
             old  == Content(Snapshot(f, path))
             add  == NewRows(ByModel(rows, fmap, groups[1]), ExistingDigests(old))
         IN  AppendAll(IF add = <<>> THEN f ELSE Put(f, path, old \o add),
                       Tail(groups), rows, fmap)

\* main, lines 196-305: the files one run of stamp k leaves that is not a
\* preview, is not terminated, finds the files f0 and the photos ph and lists
\* them in the order q.
IngestOutcome(f0, ph, q, k) ==
    LET ld     == load_existing_master(f0)
        rows   == ScanRows(q, ph, ld.table, k)
        groups == GroupOrder(rows, {})
        mbm    == [g \in { groups[i] : i \in 1..Len(groups) } |-> ManifestPath(g)]
    IN  IF rows = <<>> THEN ld.fs
        ELSE Put(AppendAll(ld.fs, groups, rows, FileMap(q)), MASTER,
                 ToCsv(Combined(ld.table, Stamp(rows, mbm)), ld.cols))

\* The lines of a table file with the processing time blanked.
Untimed(content) ==
    [i \in 1..Len(content) |->
        IF content[i].t = "row" THEN [content[i] EXCEPT !.processed_at = 0] ELSE content[i]]

\* A run that is not a preview has ended; the run before it was not a preview
\* either and was terminated when it had appended to a manifest and had not
\* replaced the master table; the photo directories are as the first of the two
\* runs found them, and both runs listed them in the same order.
RerunAfterInterruptedRun ==
    /\ run.pc = "done" /\ ~run.dry
    /\ hist.prev_status = "aborted" /\ ~hist.prev_dry
    /\ ~hist.prev_changed /\ ~hist.changed
    /\ hist.prev_order = hist.order
    /\ \E g \in Groups :
          Snapshot(hist.start_fs, ManifestPath(g)) # Snapshot(hist.prev_start_fs, ManifestPath(g))
    /\ Snapshot(load_existing_master(hist.prev_start_fs).fs, MASTER) = Snapshot(hist.start_fs, MASTER)

\* Some line is twice in the content.
HasDuplicateLine(content) ==
    \E i, j \in 1..Len(content) : i # j /\ content[i] = content[j]

\* C21: when a run that is not a preview is terminated after it has appended
\* to one or more manifests and before it has persisted the master table, a
\* complete run over the same directories leaves the table records (but for
\* processed_at) and the manifests that one run left alone would have left,
\* no manifest line is there twice, and every new record has its manifest path.
InterruptedRunThenRerunConverges ==
    RerunAfterInterruptedRun =>
        LET one == IngestOutcome(hist.prev_start_fs, photos, hist.order, run.k)
        IN  /\ Exists(fs, MASTER) /\ Exists(one, MASTER)
            /\ Untimed(fs[MASTER]) = Untimed(one[MASTER])
            /\ \A g \in Groups :
                  /\ Snapshot(fs, ManifestPath(g)) = Snapshot(one, ManifestPath(g))
                  /\ ~HasDuplicateLine(Content(Snapshot(fs, ManifestPath(g))))
            /\ \A l \in AddedLines : l.manifest = ManifestPath(l.model)

\* C22: every line an ingest run has appended to a manifest pairs a digest
\* with the path of a file that has that digest, also when two photo
\* directories hold files of one name and different contents.
ManifestLinesPairDigestWithItsFile ==
    \A g \in Groups :
        Exists(fs, ManifestPath(g)) =>
            \A i \in 1..Len(fs[ManifestPath(g)]) :
                \E slot \in DOMAIN photos :
                    /\ PathOf(slot) = fs[ManifestPath(g)][i].path
                    /\ photos[slot] = fs[ManifestPath(g)][i].sha
(***************************************************************************)
(* SpecParse: bag_ingest.parse_schema applied to one file name, and the    *)
(* driver's test of the result (line 215).  The names are put together     *)
(* from parts: prefix group "_" view "_" sequence "." extension suffix.    *)
(***************************************************************************)
PGroups ==
    { <<"B","A","2","0","3","7","-","0","8","9">>, <<"b","a","2","0","3","7","-","0","8","9">>,
      <<"B","a","1","2","3","4","-","5","6","7">>, <<"B","A","2","0","3","-","0","8","9">>,
      <<"B","X","2","0","3","7","-","0","8","9">>, <<"B","A","2","0","3","7","_","0","8","9">> }
PViews ==
    { <<"f","r","o","n","t">>, <<"F","R","O","N","T">>, <<"F","r","o","n","t">>,
      <<"f","r","0","n","t">>, <<"t","o","p","_","v","i","e","w">>, <<>> }
PSeqs == { <<"0","1">>, <<"4","2">>, <<"1">>, <<"0","0","1">>, <<"a","1">> }
PExts ==
    { <<"j","p","g">>, <<"J","P","G">>, <<"j","p","e","g">>, <<"p","n","g">>,
      <<"w","e","b","p">>, <<"W","e","b","P">>, <<"g","i","f">>, <<"j","p","g","2">>, <<>> }
PPrefixes == { <<>>, <<"x">> }
PSuffixes == { <<>>, <<".","b","a","k">> }

PName(p) ==
    p.prefix \o p.group \o <<"_">> \o p.view \o <<"_">> \o p.seq \o <<".">> \o p.ext \o p.suffix

InitParse ==
    /\ \E g \in PGroups, v \in PViews, s \in PSeqs, e \in PExts,
          a \in PPrefixes, z \in PSuffixes :
          call = [fn |-> "parse_schema", pc |-> "called",
                  parts |-> [prefix |-> a, group |-> g, view |-> v, seq |-> s,
                             ext |-> e, suffix |-> z]]
    /\ fs = EmptyMap
    /\ hist = HistOff
    /\ tmpctr = 0
    /\ aw = AwOff
    /\ ap = ApOff
    /\ run = RunOff
    /\ photos = EmptyMap
    /\ ncalls = 0
    /\ mig = MigOff
    /\ gen = GenOff

\* lines 214-217: model, view, seq = parse_schema(p.name); if not model: continue
ParseReturn ==
    /\ call.fn = "parse_schema" /\ call.pc = "called"
    /\ LET r == ParseChars(PName(call.parts))
       IN  call' = [fn |-> "parse_schema", pc |-> "returned", parts |-> call.parts,
                    res |-> r, skipped |-> (r.model = "")]
    /\ UNCHANGED <<fs, tmpctr, aw, ap, run, photos, ncalls, hist, mig, gen>>

NextParse == ParseReturn

SpecParse == InitParse /\ [][NextParse]_vars

\* 'BA' (in the given case, or in any case), four digits, '-', three digits.
IsGroupCode(g, anycase) ==
    /\ Len(g) = 10
    /\ IF anycase THEN g[1] \in {"B", "b"} /\ g[2] \in {"A", "a"}
                  ELSE g[1] = "B" /\ g[2] = "A"
    /\ \A i \in {3, 4, 5, 6, 8, 9, 10} : IsDigit(g[i])
    /\ g[7] = "-"

\* One letter or more: lowercase only, or of any case.
IsViewWord(v, anycase) ==
    /\ v # <<>>
    /\ \A i \in 1..Len(v) : IF anycase THEN IsLetter(v[i]) ELSE IsLowerCh(v[i])

\* The names of the form GROUP_view_NN.ext.
HasSchemaForm(p, anycase) ==
    /\ p.prefix = <<>> /\ p.suffix = <<>>
    /\ IsGroupCode(p.group, anycase)
    /\ IsViewWord(p.view, anycase)
    /\ Len(p.seq) = 2 /\ IsDigit(p.seq[1]) /\ IsDigit(p.seq[2])
    /\ MapSeq(p.ext, LowerCh) \in
          { <<"j","p","g">>, <<"j","p","e","g">>, <<"p","n","g">>, <<"w","e","b","p">> }

LegacySeqTexts == { "3", "03", "3.0", "12", "", "ab" }

LegacyLine(id, filename, model, viewtype, sequence, sha) ==
    [t |-> "row", cols |-> "wide", id |-> id, filename |-> filename, model |-> model,
     viewtype |-> viewtype, sequence |-> sequence, sha256 |-> sha, processed_at |-> 0,
     manifest |-> "", notes |-> <<>>, legacy |-> ""]

GroupedLines ==
    { LegacyLine(id, Join(NameFront), "BA2037-089", "front", q, DigestX) :
        id \in {"legacy-7", "BA2037-089_front_03_3fa91c0e"}, q \in LegacySeqTexts }

OrphanLines ==
    { LegacyLine(Join(NameRandom), Join(NameRandom), "", "unknown", q, DigestY) :
        q \in LegacySeqTexts }

LegacyTables ==
    { <<Header("wide"), a>> : a \in GroupedLines \cup OrphanLines }
    \cup { <<Header("wide"), a, b>> : a \in GroupedLines, b \in OrphanLines }
    \cup { <<Header("wide"), b, a>> : a \in GroupedLines, b \in OrphanLines }

InitFix ==
    /\ \E m \in LegacyTables :
          /\ fs = Put(EmptyMap, MASTER, m)
          /\ hist = [HistOff EXCEPT !.init_master = m]
    /\ tmpctr = 0
    /\ aw = AwOff
    /\ ap = ApOff
    /\ run = RunOff
    /\ photos = EmptyMap
    /\ ncalls = 0
    /\ mig = MigOff
    /\ gen = GenOff
    /\ call = CallOff

\* python -m scripts.fix_sequence_and_id
FixStart == PassStartOf({"fix"})

NextFix ==
    \/ FixStart \/ PassCheck \/ PassRead \/ PassWrite \/ PassReturn
    \/ AwCreate \/ AwWrite \/ AwReplace

SpecFix == InitFix /\ [][NextFix]_vars

\* The number a sequence text stands for.
SeqValue(q) == IF IsIntText(q) THEN ParseInt(q) ELSE FloatTable[q]

\* The line of content that has digest d.
LineOf(content, d) == content[CHOOSE i \in 2..Len(content) : content[i].sha256 = d]

\* C16: fix_sequence_and_id writes the sequence 3, "3" or "3.0" (any such
\* form of a number below 100) as the two-character text "03", rebuilds the id
\* of a row that has a model as {model}_{viewtype}_{sequence}_{first 8 digest
\* characters}, leaves the id of a row with no model as it was, and changes
\* nothing when it is applied to its own output.
FixNormalizesAndKeepsOrphanIds ==
    (mig.kind = "fix" /\ mig.computed) =>
        /\ Len(mig.out_csv) = Len(mig.pre)
        /\ \A i \in 2..Len(mig.pre) :
              LET o == mig.pre[i]
                  n == LineOf(mig.out_csv, o.sha256)
              IN  /\ (IsIntText(o.sequence) \/ IsFloatText(o.sequence))
                        => n.sequence = Fmt02(SeqValue(o.sequence))
                  /\ o.model # ""
                        => n.id = o.model \o "_" \o o.viewtype \o "_" \o n.sequence
                                    \o "_" \o Sha8(o.sha256)
                  /\ o.model = "" => n.id = o.id
        /\ PassOutput("fix", mig.out_csv, mig.nan_text) = mig.out_csv

(***************************************************************************)
(* SpecMigrate: migrate_master_to_canonical run, once or twice, over a     *)
(* legacy table: its first row with or without an id of its own, group,    *)
(* view and sequence cells, notes and a caption; a second row, if any,     *)
(* with another or with the same digest.                                   *)
(***************************************************************************)
LegacyRecord(id, filename, filled, notes, caption, sha) ==
    [t |-> "row", cols |-> "legacy", id |-> id, filename |-> filename,
     model |-> IF filled THEN "BA2037-089" ELSE "",
     viewtype |-> IF filled THEN "front" ELSE "",
     sequence |-> IF filled THEN "01" ELSE "",
     sha256 |-> sha, processed_at |-> 0, manifest |-> "", notes |-> notes,
     legacy |-> caption]

FirstRecords ==
    { LegacyRecord(id, Join(name), filled, notes, caption, DigestX) :
        id \in {"legacy-7", "BA2037-089_front_01_3fa91c0e"}, name \in {NameFront, NameRandom},
        filled \in BOOLEAN, notes \in {<<>>, <<"keep">>}, caption \in {"", "dusty"} }

SecondRecords ==
    { LegacyRecord("legacy-8", Join(NameBack), FALSE, <<>>, "", sha) :
        sha \in {DigestX, DigestY} }

MigrateTables ==
    { <<Header("legacy"), a>> : a \in FirstRecords }
    \cup { <<Header("legacy"), a, b>> : a \in FirstRecords, b \in SecondRecords }

InitMigrate ==
    /\ \E m \in MigrateTables :
          /\ fs = Put(EmptyMap, MASTER, m)
          /\ hist = [HistOff EXCEPT !.init_master = m]
    /\ tmpctr = 0
    /\ aw = AwOff
    /\ ap = ApOff
    /\ run = RunOff
    /\ photos = EmptyMap
    /\ ncalls = 0
    /\ mig = MigOff
    /\ gen = GenOff
    /\ call = CallOff

\* python -m scripts.migrate_master_to_canonical
MigrateStart == PassStartOf({"migrate"})

NextMigrate ==
    \/ MigrateStart \/ PassCheck \/ PassRead \/ MigBackup \/ PassWrite \/ PassReturn
    \/ AwCreate \/ AwWrite \/ AwReplace

SpecMigrate == InitMigrate /\ [][NextMigrate]_vars

\* Line n has a notes line key=value.
HasNote(n, key, value) == \E i \in 1..Len(n.notes) : n.notes[i] = key \o "=" \o value

\* The text old of column key is empty, is in the same column of n or is in
\* the notes of n.
KeptText(n, key, old, new) == old = "" \/ new = old \/ HasNote(n, key, old)

\* The same for the sequence, two spellings of one number being one value.
KeptSequence(n, old) ==
    \/ old = ""
    \/ IF IsIntText(old) /\ IsIntText(n.sequence)
       THEN ParseInt(old) = ParseInt(n.sequence)
       ELSE old = n.sequence
    \/ HasNote(n, "sequence", old)

\* C17: every non-empty value of a legacy row that migrate_master_to_canonical
\* keeps is, in the output row, in the canonical column of the same meaning or
\* in notes as a key=value line; so are the legacy row's own notes, id, model,
\* viewtype and sequence.
MigrationKeepsLegacyValues ==
    (mig.kind = "migrate" /\ mig.computed) =>
        \A j \in 2..Len(mig.out_csv) :
            LET n == mig.out_csv[j]
                o == FirstWith(DataLines(mig.pre), n.sha256)
            IN  /\ KeptText(n, "id", o.id, n.id)
                /\ KeptText(n, "filename", o.filename, n.filename)
                /\ KeptText(n, "model", o.model, n.model)
                /\ KeptText(n, "viewtype", o.viewtype, n.viewtype)
                /\ KeptSequence(n, o.sequence)
                /\ o.legacy # "" => HasNote(n, LEGACY_COLUMN, o.legacy)
                /\ \A i \in 1..Len(o.notes) :
                      \/ \E k \in 1..Len(n.notes) : n.notes[k] = o.notes[i]
                      \/ HasNote(n, "notes", o.notes[i])
                /\ n.processed_at = o.processed_at
                /\ n.manifest = o.manifest

(***************************************************************************)
(* fix_filenames: the image files of one folder are renamed to             *)
(* BA####-###_<viewtype>_<NN>.<ext>.  In SpecRename the variable photos is  *)
(* that folder, a map from file name to content (the name the content had  *)
(* at first), and call holds the locals of main.  One step handles one     *)
(* file of the listing; rglob lists a folder at once, in any order.        *)
(***************************************************************************)
FF_EXTS == {<<".","j","p","g">>, <<".","j","p","e","g">>, <<".","p","n","g">>}
FF_SCHEMA_EXTS == {<<"j","p","g">>, <<"j","p","e","g">>, <<"p","n","g">>}

\* VIEW_HINTS, in the order of the dict.
VIEW_HINTS ==
    << [vt |-> <<"f","r","o","n","t">>,
        keys |-> {<<"f","r","o","n","t">>, <<"f","r">>, <<"m","a","i","n">>}],
       [vt |-> <<"b","a","c","k">>,
        keys |-> {<<"b","a","c","k">>, <<"b","k">>}],
       [vt |-> <<"s","i","d","e">>,
        keys |-> {<<"s","i","d","e">>, <<"s","d">>, <<"l","e","f","t">>, <<"r","i","g","h","t">>}],
       [vt |-> <<"t","o","p">>,
        keys |-> {<<"t","o","p">>, <<"t","p">>}],
       [vt |-> <<"b","o","t","t","o","m">>,
        keys |-> {<<"b","o","t","t","o","m">>, <<"b","t","m">>, <<"b","a","s","e">>}],
       [vt |-> <<"d","e","t","a","i","l">>,
        keys |-> {<<"d","e","t","a","i","l">>, <<"c","l","o","s","e">>, <<"m","a","c","r","o">>}],
       [vt |-> <<"t","a","g">>,
        keys |-> {<<"t","a","g">>, <<"l","a","b","e","l">>, <<"c","a","r","e">>, <<"w","a","s","h">>, <<"s","i","z","e">>}] >>

FfPlain == <<"f","r","o","n","t",".","j","p","g">>
FfShort == <<"f","r","2",".","p","n","g">>
FfLabel == <<"l","a","b","e","l",".","J","P","G">>
FfOneDigit == <<"B","A","2","0","3","7","-","0","8","9","_","f","r","o","n","t","_","1",".","j","p","g">>
FfText == <<"s","c","a","n",".","t","x","t">>
FfOther == <<"x",".","j","p","e","g">>
FfNames == {FfPlain, FfShort, FfLabel, FfOneDigit, FfText, FfOther, NameFront}

\* --root: a folder with the group code in its path, or one without.
FfRoots == {<<"i","n","/","B","A","2","0","3","7","-","0","8","9">>, <<"i","n">>}
LOG == "logs/fix_filenames.tsv"

\* Path.suffix: from the last dot, if it is not the first character.
Suffix(t) ==
    LET dots == { i \in 2..Len(t) : t[i] = "." }
    IN  IF dots = {} THEN <<>>
        ELSE SubSeq(t, CHOOSE i \in dots : \A j \in dots : j <= i, Len(t))
\* Path.stem
Stem(t) == SubSeq(t, 1, Len(t) - Len(Suffix(t)))

\* h in t
Contains(t, h) == \E i \in 0..(Len(t) - Len(h)) : SubSeq(t, i + 1, i + Len(h)) = h

\* SCHEMA.match(name), line 82: the canonical form with one of three extensions.
FfCompliant(t) ==
    /\ MatchAt(t, 0, TRUE)
    /\ MapSeq(SubSeq(t, LettersEnd(t, 12) + 4, Len(t)), LowerCh) \in FF_SCHEMA_EXTS

\* (BA\d{4}-\d{3}) with re.I at position o + 1 of t.
CodeAt(t, o) ==
    /\ Len(t) >= o + 10
    /\ LowerCh(t[o + 1]) = "b" /\ LowerCh(t[o + 2]) = "a"
    /\ AllDigits(t, o + 3, o + 6) /\ t[o + 7] = "-" /\ AllDigits(t, o + 8, o + 10)

\* line 87-92: re.search over the path, the leftmost match in upper case;
\* <<>> when there is none.
FindModel(path) ==
    LET at == { o \in 0..Len(path) : CodeAt(path, o) }
    IN  IF at = {} THEN <<>>
        ELSE LET o == CHOOSE x \in at : \A y \in at : x <= y
             IN  MapSeq(SubSeq(path, o + 1, o + 10), UpperCh)

\* guess_viewtype, lines 36-41: the first view one of whose hints is in the
\* lower-cased name.
RECURSIVE GuessFrom(_, _)
GuessFrom(low, k) ==
    IF k > Len(VIEW_HINTS) THEN <<"u","n","k","n","o","w","n">>
    ELSE IF \E h \in VIEW_HINTS[k].keys : Contains(low, h) THEN VIEW_HINTS[k].vt
    ELSE GuessFrom(low, k + 1)
guess_viewtype(name) == GuessFrom(MapSeq(name, LowerCh), 1)

\* f"{n:02d}"
SeqChars(n) ==
    IF n < 100 THEN <<ToString(n \div 10), ToString(n % 10)>>
    ELSE <<ToString(n \div 100), ToString((n \div 10) % 10), ToString(n % 10)>>

Max2(a, b) == IF a >= b THEN a ELSE b

\* existing_max_seq, lines 43-58, over the names of the folder: the glob
\* takes the names that begin with <model>_<viewtype>_ and end with one of
\* EXTS, the pattern those with two digits and a dot after the prefix.
existing_max_seq(names, model, viewtype) ==
    LET prefix == model \o <<"_">> \o viewtype \o <<"_">>
        L == Len(prefix)
        globbed == { n \in names :
                       \E x \in FF_EXTS :
                          /\ Len(n) >= L + Len(x)
                          /\ SubSeq(n, 1, L) = prefix
                          /\ SubSeq(n, Len(n) - Len(x) + 1, Len(n)) = x }
        found == { 10 * DigitVal(n[L + 1]) + DigitVal(n[L + 2]) :
                     n \in { m \in globbed :
                               /\ Len(m) >= L + 3
                               /\ AllDigits(m, L + 1, L + 2)
                               /\ m[L + 3] = "." } }
    IN  IF found = {} THEN 0 ELSE CHOOSE x \in found : \A y \in found : y <= x

\* line 104: p.with_name(f"{model}_{viewtype}_{seqnum}.{ext}")
Target(model, viewtype, n, ext) ==
    model \o <<"_">> \o viewtype \o <<"_">> \o SeqChars(n) \o <<".">> \o ext

\* lines 107-110: the sequence is raised while the target exists.
RECURSIVE FreeSeq(_, _, _, _, _)
FreeSeq(names, model, viewtype, n, ext) ==
    IF Target(model, viewtype, n, ext) \in names
    THEN FreeSeq(names, model, viewtype, n + 1, ext)
    ELSE n

FfOff == [fn |-> "fix_filenames", pc |-> "idle", dry |-> FALSE, root |-> <<>>,
          todo |-> {}, seq_cache |-> EmptyMap, changes |-> <<>>, pre |-> EmptyMap]

\* The folders of the model: up to MaxFolder files, each with its own content;
\* the script is run up to MaxRenameRuns times.
MaxFolder == 3
MaxRenameRuns == 1
InitRename ==
    /\ \E S \in SUBSET FfNames :
          /\ Cardinality(S) <= MaxFolder
          /\ photos = [n \in S |-> n]
    /\ call = FfOff
    /\ fs = EmptyMap
    /\ hist = HistOff
    /\ tmpctr = 0
    /\ aw = AwOff
    /\ ap = ApOff
    /\ run = RunOff
    /\ ncalls = 0
    /\ mig = MigOff
    /\ gen = GenOff

\* python scripts/fix_filenames.py --root <root> [--dry-run]; lines 61-75.
FfStart ==
    /\ call.pc \in {"idle", "done"}
    /\ ncalls < MaxRenameRuns
    /\ \E dry \in BOOLEAN, root \in FfRoots :
          call' = [FfOff EXCEPT !.pc = "scan", !.dry = dry, !.root = root,
                                !.todo = DOMAIN photos, !.pre = photos]
    /\ ncalls' = ncalls + 1
    /\ UNCHANGED <<fs, tmpctr, aw, ap, run, photos, hist, mig, gen>>

\* lines 75-118: one file of the listing.
FfFile ==
    /\ call.pc = "scan"
    /\ \E p \in call.todo :
          LET rest  == [call EXCEPT !.todo = call.todo \ {p}]
              model == FindModel(call.root \o <<"/">> \o p)
              viewtype == guess_viewtype(Stem(p))
              key   == <<model, viewtype>>
              start_seq == existing_max_seq(DOMAIN photos, model, viewtype) + 1
              cached == IF key \in DOMAIN call.seq_cache THEN call.seq_cache[key] ELSE 0
              ext   == Tail(MapSeq(Suffix(p), LowerCh))
              n     == FreeSeq(DOMAIN photos, model, viewtype, Max2(cached, start_seq), ext)
              target == Target(model, viewtype, n, ext)
          IN  IF MapSeq(Suffix(p), LowerCh) \notin FF_EXTS \/ FfCompliant(p)
              THEN call' = rest /\ photos' = photos
              ELSE IF model = <<>>
              THEN /\ call' = [rest EXCEPT !.changes =
                                 Append(@, [src |-> p, dst |-> <<>>, action |-> "SKIP:no-model"])]
                   /\ photos' = photos
              ELSE /\ call' = [rest EXCEPT
                                 !.seq_cache = Put(@, key, n),
                                 !.changes = IF p # target
                                             THEN Append(@, [src |-> p, dst |-> target,
                                                             action |-> "RENAME"])
                                             ELSE @]
                   /\ photos' = IF p # target /\ ~call.dry
                                THEN Put(Remove(photos, p), target, photos[p])
                                ELSE photos
    /\ UNCHANGED <<fs, tmpctr, aw, ap, run, ncalls, hist, mig, gen>>

\* lines 120-130: the log is written.
FfLog ==
    /\ call.pc = "scan" /\ call.todo = {}
    /\ fs' = Put(fs, LOG, <<[t |-> "hdr", cols |-> "log"]>> \o call.changes)
    /\ call' = [call EXCEPT !.pc = "done"]
    /\ UNCHANGED <<tmpctr, aw, ap, run, photos, ncalls, hist, mig, gen>>

NextRename == FfStart \/ FfFile \/ FfLog

SpecRename == InitRename /\ [][NextRename]_vars

\* The RENAME entries of the change list.
Renames == SelectSeq(call.changes, LAMBDA c : c.action = "RENAME")

\* C18: the files of one folder that fix_filenames renames get distinct
\* sequence numbers within one group and view, in a dry run as in a real
\* run: no two RENAME entries of a run have the same destination (or the
\* same destination but for the extension), no destination is a file that
\* exists, and a real run keeps every file's content under some name.
RenamesAreDistinctAndSafe ==
    (call.fn = "fix_filenames" /\ call.pc # "idle") =>
        /\ \A i, j \in 1..Len(Renames) :
              i # j => Stem(Renames[i].dst) # Stem(Renames[j].dst)
        /\ \A i \in 1..Len(Renames) : Renames[i].dst \notin DOMAIN call.pre
        /\ ~call.dry =>
              /\ Cardinality(DOMAIN photos) = Cardinality(DOMAIN call.pre)
              /\ { photos[n] : n \in DOMAIN photos } = { call.pre[n] : n \in DOMAIN call.pre }

(***************************************************************************)
(* SpecSort: bag_ingest over a master table that earlier runs have written *)
(* and photo folders that hold files of one group and view with different   *)
(* sequence numbers, and two files of one name.                             *)
(***************************************************************************)
SortSlots ==
    { [dir |-> DirA, name |-> Join(NameFront)],
      [dir |-> DirA, name |-> Join(NameFront2)],
      [dir |-> DirB, name |-> Join(NameFront)] }

\* The content of each of these files.
SortDigest(slot) ==
    IF slot.dir = DirB THEN DigestZ
    ELSE IF slot.name = Join(NameFront) THEN DigestX ELSE DigestY

\* The tables an earlier run has written for some of the files.
SortTables ==
    { ToCsv(Combined(<<>>, q), "wide") :
        q \in UNION { Perms({ NewRow(sl, SortDigest(sl), 0) : sl \in S }) :
                         S \in (SUBSET SortSlots) \ {{}} } }

InitSort ==
    /\ \E m \in {NoFile} \cup SortTables :
          /\ fs = IF m = NoFile THEN EmptyMap ELSE Put(EmptyMap, MASTER, m)
          /\ hist = [HistOff EXCEPT !.init_master = m]
    /\ photos = EmptyMap
    /\ tmpctr = 0
    /\ aw = AwOff
    /\ ap = ApOff
    /\ run = RunOff
    /\ ncalls = 0
    /\ mig = MigOff
    /\ gen = GenOff
    /\ call = CallOff

\* Between runs one of the files appears in its folder.
AddSortPhoto ==
    /\ RunIdle
    /\ \E slot \in SortSlots \ DOMAIN photos : photos' = Put(photos, slot, SortDigest(slot))
    /\ hist' = [hist EXCEPT !.changed = TRUE]
    /\ UNCHANGED <<fs, tmpctr, aw, ap, run, ncalls, mig, gen, call>>

NextSort ==
    \/ AddSortPhoto \/ MainStart \/ MainLoad \/ MainScan \/ MainAppendCall
    \/ MainAppendReturn \/ MainMerge \/ MainPersistReturn
    \/ ApLoad \/ ApTmpOpen \/ ApTmpWrite \/ ApMergedOpen \/ ApMergedOld
    \/ ApMergedNew \/ ApMergedReplace \/ ApUnlink \/ ApTmpReplace
    \/ AwCreate \/ AwWrite \/ AwReplace

SpecSort == InitSort /\ [][NextSort]_vars

\* Line a is before line b in the order by (group, view, sequence, filename),
\* the sequence compared as a number.
LineBefore(a, b) ==
    IF a.model # b.model THEN StrLess(a.model, b.model)
    ELSE IF a.viewtype # b.viewtype THEN StrLess(a.viewtype, b.viewtype)
    ELSE IF ParseInt(a.sequence) # ParseInt(b.sequence)
         THEN ParseInt(a.sequence) < ParseInt(b.sequence)
    ELSE StrLess(a.filename, b.filename)

\* The place of the row with digest d in rows.
PlaceOf(rows, d) == CHOOSE i \in 1..Len(rows) : rows[i].sha256 = d

\* C19: the table an ingest run hands to the atomic writer is in ascending
\* order of (group, view, sequence, filename), the sequence compared as a
\* number, whatever mix of loaded and new rows it holds; rows equal on the
\* four keys are in the order they had in the loaded table followed by the
\* new rows.
PersistedTableIsSorted ==
    run.pc = "persist" =>
        LET out == DataLines(run.out_csv)
            inp == run.existing \o run.new_rows
        IN  \A i, j \in 1..Len(out) :
                i < j =>
                    /\ ~LineBefore(out[j], out[i])
                    /\ ~LineBefore(out[i], out[j])
                          => PlaceOf(inp, out[i].sha256) < PlaceOf(inp, out[j].sha256)

(***************************************************************************)
(* SpecRepair: repair_master_from_filename and fix_sequence_and_id run, in *)
(* any order, over a legacy table; beside the tables of SpecFix there are  *)
(* those whose first row has a file name of the schema and no group.       *)
(***************************************************************************)
UnfilledLines ==
    { LegacyLine("legacy-7", Join(NameFront), "", view, q, DigestX) :
        view \in {"", "unknown", "back"}, q \in LegacySeqTexts }

RepairTables ==
    LegacyTables
    \cup { <<Header("wide"), a>> : a \in UnfilledLines }
    \cup { <<Header("wide"), a, b>> : a \in UnfilledLines, b \in OrphanLines }

InitRepair ==
    /\ \E m \in RepairTables :
          /\ fs = Put(EmptyMap, MASTER, m)
          /\ hist = [HistOff EXCEPT !.init_master = m]
    /\ tmpctr = 0
    /\ aw = AwOff
    /\ ap = ApOff
    /\ run = RunOff
    /\ photos = EmptyMap
    /\ ncalls = 0
    /\ mig = MigOff
    /\ gen = GenOff
    /\ call = CallOff

\* python -m scripts.repair_master_from_filename, or scripts.fix_sequence_and_id
RepairStart == PassStartOf({"repair", "fix"})

NextRepair ==
    \/ RepairStart \/ PassCheck \/ PassRead \/ PassWrite \/ PassReturn
    \/ AwCreate \/ AwWrite \/ AwReplace

SpecRepair == InitRepair /\ [][NextRepair]_vars

\* The sequence text q is a number other than zero, written as an integer.
NonZeroNumber(q) == IsIntText(q) /\ ParseInt(q) # 0

\* C20: repair_master_from_filename and fix_sequence_and_id keep the number of
\* rows and every row's digest and filename; repair_master_from_filename
\* changes no model that is not empty, no view other than '' and 'unknown',
\* and no sequence that is a number other than zero.
RepairPassesPreserveIdentity ==
    (mig.kind \in {"repair", "fix"} /\ mig.computed) =>
        /\ Len(mig.out_csv) = Len(mig.pre)
        /\ \A i \in 2..Len(mig.pre) :
              \E j \in 2..Len(mig.out_csv) :
                  /\ mig.out_csv[j].sha256 = mig.pre[i].sha256
                  /\ mig.out_csv[j].filename = mig.pre[i].filename
        /\ mig.kind = "repair" =>
              \A i \in 2..Len(mig.pre) :
                  LET o == mig.pre[i]
                      n == LineOf(mig.out_csv, o.sha256)
                  IN  /\ o.model # "" => n.model = o.model
                      /\ o.viewtype \notin {"", "unknown"} => n.viewtype = o.viewtype
                      /\ NonZeroNumber(o.sequence) =>
                            /\ IsIntText(n.sequence) \/ IsFloatText(n.sequence)
                            /\ SeqValue(n.sequence) = ParseInt(o.sequence)

(***************************************************************************)
(* SpecMigrateDisk: migrate_master_to_canonical over a legacy table of two *)
(* or three rows of different file names, some without a digest, with some *)
(* of the files on disk.                                                   *)
(***************************************************************************)
DiskRecords ==
    { LegacyRecord("legacy-7", Join(NameFront), FALSE, <<>>, "", sha) : sha \in {NoDigest, DigestX} }
    \cup { LegacyRecord("legacy-8", Join(NameBack), FALSE, <<>>, "", sha) : sha \in {NoDigest, DigestX} }
    \cup { LegacyRecord("legacy-9", Join(NameRandom), FALSE, <<>>, "", NoDigest) }

DiskTables ==
    { <<Header("legacy")>> \o q :
        q \in UNION { Perms(S) : S \in { T \in SUBSET DiskRecords :
                         /\ Cardinality(T) \in {2, 3}
                         /\ \A a, b \in T : a # b => a.filename # b.filename } } }

\* The photo files on disk: some of the files of group BA2037-089.
DiskPhotos ==
    { ph \in UNION { [S -> Digests] : S \in SUBSET { sl \in Slots : sl.dir = DirA } } :
        \A sl \in DOMAIN ph : ph[sl] \in SlotDigests(sl) }

InitMigrateDisk ==
    /\ \E m \in DiskTables :
          /\ fs = Put(EmptyMap, MASTER, m)
          /\ hist = [HistOff EXCEPT !.init_master = m]
    /\ photos \in DiskPhotos
    /\ tmpctr = 0
    /\ aw = AwOff
    /\ ap = ApOff
    /\ run = RunOff
    /\ ncalls = 0
    /\ mig = MigOff
    /\ gen = GenOff
    /\ call = CallOff

SpecMigrateDisk == InitMigrateDisk /\ [][NextMigrate]_vars

\* Row i of the legacy table is in the output (the file names of a table
\* being different).
KeptRow(i) ==
    \E j \in 2..Len(mig.out_csv) : mig.out_csv[j].filename = BaseName(mig.pre[i].filename)

\* The digest the pass takes for row i of the legacy table.
DigestOfRow(i) == MigrateRow(ReadCsv(mig.pre)[i - 1]).sha256

\* C23: migrate_master_to_canonical leaves a legacy row out of its output only
\* if an earlier row has the same digest (stored, or computed from the file
\* on disk) and that digest is not empty; the rows that have no digest are
\* all kept.
MigrationDropsOnlyTrueDuplicates ==
    (mig.kind = "migrate" /\ mig.computed) =>
        \A i \in 2..Len(mig.pre) :
            ~KeptRow(i) =>
                /\ DigestOfRow(i) # NoDigest
                /\ \E j \in 2..(i - 1) : DigestOfRow(j) = DigestOfRow(i)

(***************************************************************************)
(* SpecKeep: bag_ingest over a master table that holds records without a   *)
(* digest, or that generate_per_bag_ingest has written, while files appear *)
(* in the photo folders.                                                   *)
(***************************************************************************)
\* A stored record of the file name with no digest, as
\* migrate_master_to_canonical writes it.
DigestlessRow(name) ==
    LET ps == parse_schema(name)
    IN  [id |-> ps.model \o "_" \o ps.view \o "_" \o Fmt02(ps.seq) \o "_00000000",
         filename |-> name, model |-> ps.model, viewtype |-> ps.view,
         sequence |-> StrCell(Fmt02(ps.seq)), sha256 |-> NoDigest,
         processed_at |-> 0, manifest |-> "", notes |-> <<>>, legacy |-> ""]

KeepRows ==
    { NewRow([dir |-> DirA, name |-> Join(NameFront)], DigestX, 0),
      DigestlessRow(Join(NameBack)), DigestlessRow(Join(NameSide)) }

\* The stored tables: some of KeepRows in some order, or one or two lines of
\* generate_per_bag_ingest under its header.
KeepTables ==
    { ToCsv(q, "wide") : q \in UNION { Perms(S) : S \in (SUBSET KeepRows) \ {{}} } }
    \cup { <<Header("narrow"), GenRow([name |-> Join(NameFront), sha |-> DigestX], 0)>>,
           <<Header("narrow"), GenRow([name |-> Join(NameFront), sha |-> DigestX], 0),
             GenRow([name |-> Join(NameBack), sha |-> DigestY], 0)>> }

InitKeep ==
    /\ \E m \in KeepTables :
          /\ fs = Put(EmptyMap, MASTER, m)
          /\ hist = [HistOff EXCEPT !.init_master = m]
    /\ photos = EmptyMap
    /\ tmpctr = 0
    /\ aw = AwOff
    /\ ap = ApOff
    /\ run = RunOff
    /\ ncalls = 0
    /\ mig = MigOff
    /\ gen = GenOff
    /\ call = CallOff

SpecKeep == InitKeep /\ [][NextSort]_vars

\* Two texts of a sequence cell are one value: the same text, or two
\* spellings of one number.
SameSequence(a, b) ==
    IF IsIntText(a) /\ IsIntText(b) THEN ParseInt(a) = ParseInt(b) ELSE a = b

\* Line b holds the record of line a.
SameRecord(a, b) ==
    /\ a.id = b.id /\ a.filename = b.filename /\ a.model = b.model
    /\ a.viewtype = b.viewtype /\ SameSequence(a.sequence, b.sequence)
    /\ a.sha256 = b.sha256 /\ a.processed_at = b.processed_at
    /\ a.manifest = b.manifest /\ a.notes = b.notes /\ a.legacy = b.legacy

\* A run that is not a preview has replaced a master table that parses.
PersistedOverStoredTable ==
    /\ run.pc = "done" /\ run.persisted /\ ~run.dry
    /\ Exists(hist.start_fs, MASTER)
    /\ ReadOk(hist.start_fs[MASTER])

\* C24: when an ingest run that is not a preview has replaced a master table
\* that parses, every record the table held when the run started is in the
\* new table with the same field values, a record without a digest and a
\* record of the narrow producer too.
IngestKeepsStoredRecords ==
    PersistedOverStoredTable =>
        \A i \in 2..Len(hist.start_fs[MASTER]) :
            \E j \in 2..Len(fs[MASTER]) :
                SameRecord(hist.start_fs[MASTER][i], fs[MASTER][j])

====
